---------------------------- MODULE Spec2Model ----------------------------
(***************************************************************************)
(* Model of the trading execution engine of solana-trading-sdk:            *)
(*   - the fee / tip policy and the per-runtime transaction assembly of    *)
(*     TradingEndpoint (src/src/common/trading_endpoint.rs),               *)
(*   - the generic trading algorithm of DexTrait                           *)
(*     (src/src/dex/dex_traits.rs) on the Pumpfun venue,                   *)
(*   - the concurrent fan-out to the relay runtimes (join_all).            *)
(* One behaviour is one call of buy / sell / batch_buy / batch_sell or of  *)
(* the public build_and_broadcast_tx on one TradingClient.                 *)
(***************************************************************************)
EXTENDS Integers, Sequences, FiniteSets, TLC

VARIABLES
    swqos,           \* TradingEndpoint.swqos: the configured relay runtimes
    global_account,  \* Pumpfun.global_account: the write-once cell
    pc,              \* position of the call
    call,            \* arguments of the call in progress
    fetch,           \* outcome of each fetch joined by try_join!
    pool_info,       \* the PoolInfo the pool fetch returned
    pool_token_amount, \* batch loops: running local copy of token reserves
    pool_sol_amount,   \* batch loops: running local copy of sol reserves
    batch_items,     \* batch loops: the BatchTxItem built so far
    instructions,    \* single trade: the venue's trade instructions
    signatures,      \* signatures collected by the build loop
    txs_to_send,     \* per runtime: the transactions built for it
    tasks,           \* per runtime: state of its submission future
    errors,          \* per runtime: the Err its submission returned
    received,        \* per runtime: the requests the relay was sent
    result,          \* what the call returned to its caller
    swqos_config,    \* SWQoSConfig::build_runtimes: the configuration (self)
    provider_pool,   \* the tip-account array its provider publishes
    runtimes,        \* the runtimes build_runtimes returned, once it has
    reported,        \* the tip accounts the runtimes have reported since
    initializers,    \* per caller of DexTrait::initialize: how far it has got
    amm,             \* a quote: reserves, amount and slippage in, amounts out
    fees             \* a fee resolution: the two fees in, the effective fee out

vars == <<swqos, global_account, pc, call, fetch, pool_info, pool_token_amount,
          pool_sol_amount, batch_items, instructions, signatures, txs_to_send,
          tasks, errors, received, result,
          swqos_config, provider_pool, runtimes, reported, initializers,
          amm, fees>>

\* the state of SWQoSConfig::build_runtimes and of the runtimes it returns
build_vars == <<swqos_config, provider_pool, runtimes, reported>>

\* the state of a quote and of a fee resolution made on their own
quote_vars == <<amm, fees>>

(***************************************************************************)
(* Bounds of the model.                                                    *)
(***************************************************************************)
MaxRuntimes == 3
MaxItems == 2
MaxThreads == 5
MaxPool == 8
MaxCallers == 3

(***************************************************************************)
(* Option<T>: None is the empty sequence, Some(x) the one-element one.     *)
(***************************************************************************)
None == <<>>
Some(x) == <<x>>
IsSome(o) == Len(o) = 1
IsNone(o) == Len(o) = 0
Unwrap(o) == o[1]
\* Option::or
OptionOr(a, b) == IF IsSome(a) THEN a ELSE b
\* Option::unwrap_or_default on Option<u64>
UnwrapOrDefault(o) == IF IsSome(o) THEN o[1] ELSE 0

\* u32::MAX and 2^64, scaled down to the integers the model checker handles
U32Max == 1000000
U64Modulus == 1000000000

\* Vec::extend / push on sequences; range of a sequence
Range(s) == {s[i] : i \in DOMAIN s}

(***************************************************************************)
(* PriorityFee and its Add impl.                                           *)
(***************************************************************************)
PriorityFee(limit, price) == [unit_limit |-> limit, unit_price |-> price]

Max(a, b) == IF a >= b THEN a ELSE b
Min(a, b) == IF a <= b THEN a ELSE b

\* variant of the u32 addition that wraps around
WrappingAddU32(a, b) == (a + b) % (U32Max + 1)

\* u32::saturating_add
SaturatingAddU32(a, b) == Min(U32Max, a + b)

\* impl Add for PriorityFee
PriorityFeeAdd(self, rhs) ==
    [unit_limit |-> SaturatingAddU32(self.unit_limit, rhs.unit_limit),
     unit_price |-> Max(self.unit_price, rhs.unit_price)]

\* Lamports.0.add(additional_tip): u64 addition
U64Add(a, b) == (a + b) % U64Modulus

(***************************************************************************)
(* Relay providers.  The tip-account pools are the providers' constant     *)
(* arrays, shortened to the first addresses.                               *)
(***************************************************************************)
\* Addresses are records, so that derived addresses compare with plain keys.
Pubkey(name) == [a |-> name, b |-> "", kind |-> "key"]
\* spl_associated_token_account::get_associated_token_address
get_associated_token_address(owner, mint) == [a |-> owner, b |-> mint, kind |-> "ata"]
\* spl_token::ID
SplTokenId == Pubkey("spl_token::ID")

NEXTBLOCK_TIP_ACCOUNTS == <<Pubkey("NextbLoCk"), Pubkey("NexTbLoCk")>>
BLOX_TIP_ACCOUNTS == <<Pubkey("HWEoBxYs")>>
BLOCK_RAZOR_TIP_ACCOUNTS == <<Pubkey("FjmZZrFv")>>

TransactionTypes == {"Buy", "Sell", "Create"}

(***************************************************************************)
(* Result<T, E>.                                                           *)
(***************************************************************************)
Ok(v) == [ok |-> TRUE, val |-> v]
Err(e) == [ok |-> FALSE, err |-> e]
IsOk(r) == r.ok
IsErr(r) == ~r.ok

(***************************************************************************)
(* SWQoSConfig and SWQoSRuntime.                                           *)
(***************************************************************************)
SWQoSKinds == {"Default", "NextBlock", "Blox", "BlockRazor"}

\* SWQoSTrait::get_name of the client SWQoSType::instantiate_many creates
ClientName(kind) ==
    CASE kind = "Default" -> "default"
      [] kind = "NextBlock" -> "nextblock"
      [] kind = "Blox" -> "blox"
      [] kind = "BlockRazor" -> "blockrazor"

SWQoSConfig(kind, threads, buy_tip, buy_fee, sell_tip, sell_fee) ==
    [kind |-> kind, threads |-> threads, buy_tip |-> buy_tip, buy_fee |-> buy_fee,
     sell_tip |-> sell_tip, sell_fee |-> sell_fee]

\* the client of one runtime; tip_accounts is the list it was built with
SWQoSClient(kind, tip_accounts) ==
    [name |-> ClientName(kind), kind |-> kind, tip_accounts |-> tip_accounts]

\* SWQoSRuntime { config, client }
SWQoSRuntime(config, client) == [config |-> config, client |-> client]

\* the constant tip-account array instantiate_many chunks for a kind;
\* SWQoSType::Default has none
TipAccounts(kind) ==
    CASE kind = "NextBlock" -> NEXTBLOCK_TIP_ACCOUNTS
      [] kind = "Blox" -> BLOX_TIP_ACCOUNTS
      [] kind = "BlockRazor" -> BLOCK_RAZOR_TIP_ACCOUNTS
      [] OTHER -> <<>>

\* variant of slice::chunks that drops a shorter last chunk (chunks_exact)
ChunksExact(s, chunk_size) ==
    [k \in 1..(Len(s) \div chunk_size) |->
        SubSeq(s, (k - 1) * chunk_size + 1, k * chunk_size)]

\* accounts.chunks(chunk_size): consecutive slices of chunk_size elements,
\* the last one shorter when the length is no multiple of chunk_size
Chunks(s, chunk_size) ==
    [k \in 1..((Len(s) + chunk_size - 1) \div chunk_size) |->
        SubSeq(s, (k - 1) * chunk_size + 1, Min(k * chunk_size, Len(s)))]

\* fn chunk_accounts(accounts, threads) of instantiate_many
chunk_accounts(accounts, threads) ==
    LET capped == Max(Min(threads, Len(accounts)), 1)
        chunk_size == (Len(accounts) + capped - 1) \div capped
    IN  Chunks(accounts, chunk_size)

\* variant of instantiate_many that takes the configured threads as they are
instantiate_many_uncoerced(kind, threads, accounts) ==
    IF kind = "Default"
    THEN [i \in 1..threads |-> SWQoSClient(kind, <<>>)]
    ELSE LET chunks == chunk_accounts(accounts, threads)
         IN  [i \in 1..Len(chunks) |-> SWQoSClient(kind, chunks[i])]

\* SWQoSType::instantiate_many; accounts is the constant array of the kind.
\* Default makes one client per thread, each with an empty list; the other
\* kinds make one client per chunk of chunk_accounts
instantiate_many(kind, threads, accounts) ==
    LET coerced == Max(threads, 1)
    IN  IF kind = "Default"
        THEN [i \in 1..coerced |-> SWQoSClient(kind, <<>>)]
        ELSE LET chunks == chunk_accounts(accounts, coerced)
             IN  [i \in 1..Len(chunks) |-> SWQoSClient(kind, chunks[i])]

\* SWQoSConfig::build_runtimes: one runtime per client, each with a clone of
\* the configuration
build_runtimes(self, accounts) ==
    LET clients == instantiate_many(self.kind, self.threads, accounts)
    IN  [i \in 1..Len(clients) |-> SWQoSRuntime(self, clients[i])]

\* DefaultSWQoSClient is built with an empty tip-account list and reports
\* no tip account.
DefaultGetTipAccount == {None}

\* SWQoSTrait::get_tip_account of NextBlockClient, BloxClient and
\* BlockRazorClient: a random element of the provider's constant array
\* (accounts), whatever list the client was built with
get_tip_account(client, accounts) ==
    IF client.kind = "Default" THEN DefaultGetTipAccount
    ELSE {Some(a) : a \in Range(accounts)}

\* SWQoSRuntime::get_tip_account: the values the client's random choice over
\* its provider's constant pool can return.
GetTipAccount(rt) == get_tip_account(rt.client, TipAccounts(rt.client.kind))

(***************************************************************************)
(* Fee / tip policy of TradingEndpoint.                                    *)
(***************************************************************************)
TipFee(account, lamports) == [tip_account |-> account, tip_lamports |-> lamports]

\* variant of get_default_tip_for_tx_type in which Sell prefers the buy tip
get_default_tip_buy_first(rt, tx_type) ==
    LET tip == CASE tx_type = "Buy" -> rt.config.buy_tip
                 [] tx_type = "Sell" -> OptionOr(rt.config.buy_tip, rt.config.sell_tip)
                 [] tx_type = "Create" -> rt.config.buy_tip
    IN  IF IsSome(tip)
        THEN Ok(Unwrap(tip))
        ELSE Err([name |-> rt.client.name,
                  kind |-> "TransactionError",
                  tx_type |-> tx_type,
                  what |-> "No tip configured"])

\* TradingEndpoint::get_default_tip_for_tx_type
get_default_tip_for_tx_type(rt, tx_type) ==
    LET tip == CASE tx_type = "Buy" -> rt.config.buy_tip
                 [] tx_type = "Sell" -> OptionOr(rt.config.sell_tip, rt.config.buy_tip)
                 [] tx_type = "Create" -> rt.config.buy_tip
    IN  IF IsSome(tip)
        THEN Ok(Unwrap(tip))
        ELSE Err([name |-> rt.client.name,
                  kind |-> "TransactionError",
                  tx_type |-> tx_type,
                  what |-> "No tip configured"])

\* fail-open variant of get_tip_config: an unresolved tip amount omits the tip
get_tip_config_fail_open(rt, tx_type, additional_tip, tip_account) ==
    IF IsNone(tip_account)
    THEN Ok(None)
    ELSE LET tip == get_default_tip_for_tx_type(rt, tx_type)
         IN  IF IsErr(tip)
             THEN Ok(None)
             ELSE Ok(Some(TipFee(Unwrap(tip_account), U64Add(tip.val, additional_tip))))

\* variant of get_tip_config that resolves the tip amount before it looks at
\* the tip account
get_tip_config_amount_first(rt, tx_type, additional_tip, tip_account) ==
    LET tip == get_default_tip_for_tx_type(rt, tx_type)
    IN  IF IsErr(tip)
        THEN tip
        ELSE IF IsNone(tip_account)
        THEN Ok(None)
        ELSE Ok(Some(TipFee(Unwrap(tip_account), U64Add(tip.val, additional_tip))))

\* TradingEndpoint::get_tip_config; tip_account is what
\* swqos.get_tip_account() returned
get_tip_config(rt, tx_type, additional_tip, tip_account) ==
    IF IsNone(tip_account)
    THEN Ok(None)
    ELSE LET tip == get_default_tip_for_tx_type(rt, tx_type)
         IN  IF IsErr(tip)
             THEN tip
             ELSE Ok(Some(TipFee(Unwrap(tip_account), U64Add(tip.val, additional_tip))))

\* TradingEndpoint::get_fee_config
get_fee_config(rt, tx_type, additional_fee) ==
    LET base_fee == CASE tx_type = "Buy" -> rt.config.buy_fee
                      [] tx_type = "Sell" -> OptionOr(rt.config.sell_fee, rt.config.buy_fee)
                      [] tx_type = "Create" -> rt.config.buy_fee
    IN  CASE IsSome(base_fee) /\ IsSome(additional_fee) ->
                 Some(PriorityFeeAdd(Unwrap(base_fee), Unwrap(additional_fee)))
          [] IsSome(base_fee) /\ IsNone(additional_fee) -> base_fee
          [] IsNone(base_fee) /\ IsSome(additional_fee) -> additional_fee
          [] OTHER -> None

(***************************************************************************)
(* Instructions.  Every instruction is a record with the fields            *)
(* program, ix and args.                                                   *)
(***************************************************************************)
Instruction(program, ix, args) == [program |-> program, ix |-> ix, args |-> args]

\* ComputeBudgetInstruction::set_compute_unit_price / set_compute_unit_limit
SetComputeUnitPrice(p) == Instruction("ComputeBudget", "set_compute_unit_price", [value |-> p])
SetComputeUnitLimit(l) == Instruction("ComputeBudget", "set_compute_unit_limit", [value |-> l])
\* system_instruction::transfer
SystemTransfer(from, to, lamports) ==
    Instruction("System", "transfer", [lamports |-> lamports, from |-> from, to |-> to])
\* the nonce-advance instruction a caller may pass as nonce_ix
AdvanceNonce == Instruction("System", "advance_nonce_account", [nonce |-> "nonce"])

\* TradingEndpoint::build_fee_instructions
build_fee_instructions(rt, tx_type, custom_fee) ==
    LET fee == get_fee_config(rt, tx_type, custom_fee)
    IN  IF IsSome(fee)
        THEN <<SetComputeUnitPrice(Unwrap(fee).unit_price),
               SetComputeUnitLimit(Unwrap(fee).unit_limit)>>
        ELSE <<>>

\* TradingEndpoint::build_tip_instruction
build_tip_instruction(payer, tip_config) ==
    IF IsSome(tip_config)
    THEN Some(SystemTransfer(payer, Unwrap(tip_config).tip_account,
                             Unwrap(tip_config).tip_lamports))
    ELSE None

(***************************************************************************)
(* Transaction assembly.  A signature is determined by the signer and the  *)
(* signed message (instructions and blockhash).                            *)
(***************************************************************************)
Sign(signer, message) == [signer |-> signer, message |-> message]

\* instruction::builder::build_legacy_transaction
build_legacy_transaction(payer, ixs, blockhash, other_signers) ==
    LET message == [instructions |-> ixs, payer |-> payer, recent_blockhash |-> blockhash]
        signers == <<payer>> \o (IF IsSome(other_signers) THEN Unwrap(other_signers) ELSE <<>>)
    IN  Ok([signatures |-> [i \in DOMAIN signers |-> Sign(signers[i], message)],
            message |-> message,
            format |-> "Legacy"])

\* instruction::builder::build_transaction; compiles is whether
\* v0::Message::try_compile and VersionedTransaction::try_new succeed
build_transaction(payer, ixs, blockhash, other_signers, compiles) ==
    LET message == [instructions |-> ixs, payer |-> payer, recent_blockhash |-> blockhash]
        signers == <<payer>> \o (IF IsSome(other_signers) THEN Unwrap(other_signers) ELSE <<>>)
    IN  IF compiles
        THEN Ok([signatures |-> [i \in DOMAIN signers |-> Sign(signers[i], message)],
                 message |-> message,
                 format |-> "Versioned"])
        ELSE Err("CompileError")

\* tx.signatures[0] of either encoding
FirstSignature(tx) == tx.signatures[1]


(***************************************************************************)
(* AMM math (dex::amm_calc).                                               *)
(***************************************************************************)
\* variant of swap_out that rounds the quotient up
swap_out_rounding_up(reserve_in, reserve_out, amount_in) ==
    (amount_in * reserve_out + reserve_in + amount_in - 1) \div (reserve_in + amount_in)

\* swap_out(reserve_in, reserve_out, amount_in)
swap_out(reserve_in, reserve_out, amount_in) ==
    (amount_in * reserve_out) \div (reserve_in + amount_in)

amm_buy_get_token_out(sol_reserves, token_reserves, sol_amount) ==
    swap_out(sol_reserves, token_reserves, sol_amount)

amm_sell_get_sol_out(sol_reserves, token_reserves, token_amount) ==
    swap_out(token_reserves, sol_reserves, token_amount)

BpsDenominator == 10000

\* variant of calculate_with_slippage_buy that takes the slippage off
calculate_with_slippage_buy_subtracting(amount, bps) ==
    amount - (amount * bps + BpsDenominator - 1) \div BpsDenominator

\* amount + amount * bps / 10000, rounded up
calculate_with_slippage_buy(amount, bps) ==
    amount + (amount * bps + BpsDenominator - 1) \div BpsDenominator

\* amount - amount * bps / 10000, rounded down, floored at zero
calculate_with_slippage_sell(amount, bps) ==
    Max(0, amount - (amount * bps + BpsDenominator - 1) \div BpsDenominator)

(***************************************************************************)
(* Trade instructions (instruction::builder and the Pumpfun venue).        *)
(***************************************************************************)
SwapInfo(token_amount, sol_amount) == [sol_amount |-> sol_amount, token_amount |-> token_amount]

\* instruction::builder::build_token_account_instructions for
\* CreateATA::Create, CreateATA::Idempotent and CreateATA::None
build_token_account_instructions(payer, mint, create_ata) ==
    LET ata == get_associated_token_address(payer, mint)
    IN  CASE create_ata = "Create" ->
                 <<ata, <<Instruction("AssociatedToken", "create_associated_token_account",
                                      [owner |-> payer, mint |-> mint, payer |-> payer])>> >>
          [] create_ata = "Idempotent" ->
                 <<ata, <<Instruction("AssociatedToken", "create_associated_token_account_idempotent",
                                      [owner |-> payer, mint |-> mint, payer |-> payer])>> >>
          [] OTHER -> <<ata, <<>> >>

\* spl_token::instruction::close_account of the payer's token account
CloseAccount(account, payer) ==
    Instruction("Token", "close_account", [account |-> account, payer |-> payer])

\* instruction::builder::build_sol_sell_instructions
build_sol_sell_instructions(payer, mint, sell_instruction, close_mint_ata) ==
    <<sell_instruction>> \o
    (IF close_mint_ata
     THEN <<CloseAccount(get_associated_token_address(payer, mint), payer)>>
     ELSE <<>>)

\* Pumpfun::initialized
initialized(cell) ==
    IF IsNone(cell)
    THEN Err([kind |-> "CustomError", what |-> "Pumpfun not initialized"])
    ELSE Ok(TRUE)

\* Pumpfun::build_buy_instruction
build_buy_instruction(cell, payer, mint, creator_vault, token_account, buy) ==
    IF IsErr(initialized(cell)) THEN initialized(cell)
    ELSE IF IsNone(creator_vault)
    THEN Err([kind |-> "CustomError", what |-> "Creator vault not provided"])
    ELSE Ok(Instruction("Pumpfun", "buy",
                        [mint |-> mint,
                         payer |-> payer,
                         sol_amount |-> buy.sol_amount,
                         token_amount |-> buy.token_amount,
                         creator_vault |-> Unwrap(creator_vault),
                         token_account |-> token_account]))

\* Pumpfun::build_sell_instruction
build_sell_instruction(cell, payer, mint, custom_ata, creator_vault, sell) ==
    IF IsErr(initialized(cell)) THEN initialized(cell)
    ELSE IF IsNone(creator_vault)
    THEN Err([kind |-> "CustomError", what |-> "Creator vault not provided"])
    ELSE Ok(Instruction("Pumpfun", "sell",
                        [mint |-> mint,
                         payer |-> payer,
                         sol_amount |-> sell.sol_amount,
                         token_amount |-> sell.token_amount,
                         creator_vault |-> Unwrap(creator_vault),
                         token_account |->
                             IF IsNone(custom_ata)
                             THEN get_associated_token_address(payer, mint)
                             ELSE Unwrap(custom_ata)]))


(***************************************************************************)
(* Inputs of the model: configurations, pools and call arguments.          *)
(***************************************************************************)
BuyTips == {None, Some(5)}
SellTips == {None, Some(7)}
BuyFees == {None, Some(PriorityFee(100000, 10))}
SellFees == {None, Some(PriorityFee(200000, 5))}
AdditionalFees == {None, Some(PriorityFee(50000, 20))}
AdditionalTips == {0, 3}

\* every configuration of one provider
AllConfigs ==
    {SWQoSConfig(k, 1, bt, bf, st, sf) :
        k \in SWQoSKinds, bt \in BuyTips, bf \in BuyFees, st \in SellTips, sf \in SellFees}

\* the configurations combined into endpoints of several runtimes
MixedConfigs ==
    {SWQoSConfig("Default", 1, None, Some(PriorityFee(100000, 10)), None, None),
     SWQoSConfig("Blox", 1, Some(5), None, Some(7), None),
     SWQoSConfig("BlockRazor", 1, None, None, None, Some(PriorityFee(200000, 5)))}

SeqsOf(S, n) == [1..n -> S]

RECURSIVE FlatMapBuildRuntimes(_)
\* config.swqos.into_iter().flat_map(|w| w.build_runtimes(rpc)).collect()
FlatMapBuildRuntimes(cs) ==
    IF Len(cs) = 0 THEN <<>>
    ELSE build_runtimes(cs[1], TipAccounts(cs[1].kind)) \o FlatMapBuildRuntimes(Tail(cs))

\* TradingClient::new: the runtimes of every configured provider, in order
Endpoints ==
    {<<>>}
    \cup {FlatMapBuildRuntimes(<<c>>) : c \in AllConfigs}
    \cup UNION {{FlatMapBuildRuntimes(cs) : cs \in SeqsOf(MixedConfigs, n)} :
                n \in 2..MaxRuntimes}

Mint == Pubkey("mint")
Payer == "payer"
PayerOf(k) == <<"p1", "p2", "p3", "p4">>[k]

PoolInfo(token_reserves, sol_reserves, creator_vault) ==
    [sol_reserves |-> sol_reserves,
     token_reserves |-> token_reserves,
     creator_vault |-> creator_vault]

\* the pool snapshots the ledger may return: one whose token reserve is
\* large against its sol reserve, one where a token unit costs more than
\* the sol amounts traded, and one with no reserves
Pools ==
    {PoolInfo(1000, 30, Some(Pubkey("creator_vault"))),
     PoolInfo(20, 500, Some(Pubkey("creator_vault"))),
     PoolInfo(0, 0, Some(Pubkey("creator_vault")))}
NoPool == PoolInfo(0, 0, None)

Blockhashes == {"h1"}

\* the items of a batch of m payers
BatchItems(m) ==
    [k \in 1..m |-> [payer |-> PayerOf(k),
                     amount |-> 10 * k,
                     close_mint_ata |-> FALSE,
                     custom_ata |-> None]]

Call(op, tx_type, payer, amount, bps, fee, tip, items, nonce_ix, blockhashes, custom_ata, close_mint_ata) ==
    [tx_type |-> tx_type,
     tip |-> tip,
     fee |-> fee,
     payer |-> payer,
     amount |-> amount,
     bps |-> bps,
     close_mint_ata |-> close_mint_ata,
     custom_ata |-> custom_ata,
     op |-> op,
     items |-> items,
     nonce_ix |-> nonce_ix,
     blockhashes |-> blockhashes]

NoCall == Call("none", "Buy", Payer, 0, 0, None, 0, <<>>, None, <<>>, None, FALSE)

\* the callers of DexTrait::initialize, none of which has called yet
Callers == 1..MaxCallers
Initializer(at, account) == [account |-> account, at |-> at]
NoInitializers == [c \in Callers |-> Initializer("idle", None)]

\* no quote asked for, no fee resolution asked for
NoQuote == [sol_reserves |-> 0, token_reserves |-> 0, amount |-> 0, bps |-> 0, at |-> "none", out |-> 0, with_slippage |-> 0]
NoFees == [at |-> "none", out |-> None, base |-> None, additional |-> None, swapped |-> None]

N == Len(swqos)
Runtimes == 1..N

(***************************************************************************)
(* The state after TradingClient::new.                                     *)
(***************************************************************************)
Init ==
    /\ swqos_config = SWQoSConfig("Default", 1, None, None, None, None)
    /\ provider_pool = <<>>
    /\ runtimes = None
    /\ reported = {}
    /\ initializers = NoInitializers
    /\ amm = NoQuote
    /\ fees = NoFees
    /\ swqos \in Endpoints
    /\ global_account = None
    /\ pc = "idle"
    /\ call = NoCall
    /\ fetch = [blockhash |-> "none", amount |-> "none", pool |-> "none"]
    /\ pool_info = NoPool
    /\ pool_token_amount = 0
    /\ pool_sol_amount = 0
    /\ batch_items = <<>>
    /\ instructions = <<>>
    /\ signatures = <<>>
    /\ txs_to_send = <<>>
    /\ tasks = [i \in 1..Len(swqos) |-> "none"]
    /\ errors = [i \in 1..Len(swqos) |-> None]
    /\ received = [i \in 1..Len(swqos) |-> <<>>]
    /\ result = None

\* the call returns r to its caller
Return(r) ==
    /\ pc' = "done"
    /\ result' = Some(r)

\* TradingClient::initialize before the call: Pumpfun::initialize, when the
\* ledger fetch succeeds and the cell is empty
Initialize ==
    /\ pc = "idle"
    /\ IsNone(global_account)
    /\ global_account' = Some("GlobalAccount")
    /\ UNCHANGED <<build_vars, initializers, quote_vars, swqos, pc, call, fetch, pool_info, pool_token_amount, pool_sol_amount,
                   batch_items, instructions, signatures, txs_to_send, tasks, errors,
                   received, result>>


(***************************************************************************)
(* DexTrait: the calls and their fetches.                                  *)
(***************************************************************************)
StartFetch(c, needs_amount) ==
    /\ pc = "idle"
    /\ pc' = "fetch"
    /\ call' = c
    /\ fetch' = [blockhash |-> "pending",
                 amount |-> IF needs_amount THEN "pending" ELSE "none",
                 pool |-> "pending"]
    /\ UNCHANGED <<build_vars, initializers, quote_vars, swqos, global_account, pool_info, pool_token_amount, pool_sol_amount,
                   batch_items, instructions, signatures, txs_to_send, tasks, errors,
                   received, result>>

\* DexTrait::buy is called
Buy(sol_amount, bps, fee, tip) ==
    StartFetch(Call("buy", "Buy", Payer, sol_amount, bps, fee, UnwrapOrDefault(tip),
                    <<>>, None, <<>>, None, FALSE), FALSE)

\* DexTrait::sell is called
Sell(bps, custom_ata, close_mint_ata, fee, tip) ==
    StartFetch(Call("sell", "Sell", Payer, 0, bps, fee, tip,
                    <<>>, None, <<>>, custom_ata, close_mint_ata), TRUE)

\* DexTrait::batch_buy is called
BatchBuy(bps, fee, tip, items) ==
    StartFetch(Call("batch_buy", "Buy", Payer, 0, bps, Some(fee), tip,
                    items, None, <<>>, None, FALSE), FALSE)

\* DexTrait::batch_sell is called
BatchSell(bps, fee, tip, items) ==
    StartFetch(Call("batch_sell", "Sell", Payer, 0, bps, Some(fee), tip,
                    items, None, <<>>, None, FALSE), FALSE)

\* variant of the join that waits for every fetch and drops their errors
TryJoinIgnoringErrors(f) ==
    IF \A x \in DOMAIN f : f[x] \in {"ok", "err", "none"} THEN "ok" ELSE "pending"

\* try_join!: "err" as soon as one fetch has failed, "ok" once all have
\* succeeded
TryJoin(f) ==
    IF \E x \in DOMAIN f : f[x] = "err" THEN "err"
    ELSE IF \A x \in DOMAIN f : f[x] \in {"ok", "none"} THEN "ok"
    ELSE "pending"

\* get_pool completes
FetchPool(ok) ==
    /\ pc = "fetch"
    /\ TryJoin(fetch) = "pending"
    /\ fetch.pool = "pending"
    /\ IF ok
       THEN /\ \E p \in Pools : pool_info' = p
            /\ fetch' = [fetch EXCEPT !.pool = "ok"]
       ELSE /\ fetch' = [fetch EXCEPT !.pool = "err"]
            /\ UNCHANGED pool_info
    /\ UNCHANGED <<build_vars, initializers, quote_vars, swqos, global_account, pc, call, pool_token_amount, pool_sol_amount,
                   batch_items, instructions, signatures, txs_to_send, tasks, errors,
                   received, result>>

\* TradingEndpoint::get_latest_blockhash completes
FetchBlockhash(ok) ==
    /\ pc = "fetch"
    /\ TryJoin(fetch) = "pending"
    /\ fetch.blockhash = "pending"
    /\ IF ok
       THEN /\ \E h \in Blockhashes : call' = [call EXCEPT !.blockhashes = <<h>>]
            /\ fetch' = [fetch EXCEPT !.blockhash = "ok"]
       ELSE /\ fetch' = [fetch EXCEPT !.blockhash = "err"]
            /\ UNCHANGED call
    /\ UNCHANGED <<build_vars, initializers, quote_vars, swqos, global_account, pc, pool_info, pool_token_amount,
                   pool_sol_amount, batch_items, instructions, signatures, txs_to_send,
                   tasks, errors, received, result>>

\* sell: TokenAmountType::to_amount completes
TokenAmounts == {50}
FetchAmount(ok) ==
    /\ pc = "fetch"
    /\ TryJoin(fetch) = "pending"
    /\ fetch.amount = "pending"
    /\ IF ok
       THEN /\ \E a \in TokenAmounts : call' = [call EXCEPT !.amount = a]
            /\ fetch' = [fetch EXCEPT !.amount = "ok"]
       ELSE /\ fetch' = [fetch EXCEPT !.amount = "err"]
            /\ UNCHANGED call
    /\ UNCHANGED <<build_vars, initializers, quote_vars, swqos, global_account, pc, pool_info, pool_token_amount,
                   pool_sol_amount, batch_items, instructions, signatures, txs_to_send,
                   tasks, errors, received, result>>

\* the ? after try_join!: a failed fetch ends the call with its error
FetchJoinFailed ==
    /\ pc = "fetch"
    /\ TryJoin(fetch) = "err"
    /\ Return(Err([kind |-> "SolanaClientError",
                   what |-> CHOOSE x \in DOMAIN fetch : fetch[x] = "err"]))
    /\ UNCHANGED <<build_vars, initializers, quote_vars, swqos, global_account, call, fetch, pool_info, pool_token_amount,
                   pool_sol_amount, batch_items, instructions, signatures, txs_to_send,
                   tasks, errors, received>>

\* try_join! yields the fetched values
FetchesJoined == TryJoin(fetch) = "ok"

\* the venue instruction DexTrait::buy has buy_immediately build for a
\* payer, a sol amount and a slippage on the pool fetched
BuyInstruction(payer, sol_amount, slippage_basis_points) ==
    LET buy_token_amount ==
            amm_buy_get_token_out(pool_info.sol_reserves, pool_info.token_reserves,
                                  sol_amount)
        sol_lamports_with_slippage ==
            calculate_with_slippage_buy(sol_amount, slippage_basis_points)
        ata == build_token_account_instructions(payer, Mint, "Create")
    IN  build_buy_instruction(global_account, payer, Mint, pool_info.creator_vault, ata[1],
                              SwapInfo(buy_token_amount, sol_lamports_with_slippage))

\* DexTrait::buy after the join: pricing, then buy_immediately up to the
\* call of build_and_broadcast_tx
BuyPrice ==
    /\ pc = "fetch"
    /\ call.op = "buy"
    /\ FetchesJoined
    /\ LET ata == build_token_account_instructions(call.payer, Mint, "Create")
           instruction == BuyInstruction(call.payer, call.amount, call.bps)
       IN  IF IsErr(instruction)
           THEN /\ Return(instruction)
                /\ UNCHANGED instructions
           ELSE /\ instructions' = Append(ata[2], instruction.val)
                /\ pc' = "build"
                /\ UNCHANGED result
    /\ UNCHANGED <<build_vars, initializers, quote_vars, swqos, global_account, call, fetch, pool_info, pool_token_amount,
                   pool_sol_amount, batch_items, signatures, txs_to_send, tasks, errors,
                   received>>

\* DexTrait::sell after the join: pricing, then sell_immediately up to the
\* call of build_and_broadcast_tx
SellPrice ==
    /\ pc = "fetch"
    /\ call.op = "sell"
    /\ FetchesJoined
    /\ LET sol_lamports ==
               amm_sell_get_sol_out(pool_info.sol_reserves, pool_info.token_reserves,
                                    call.amount)
           sol_lamports_with_slippage == calculate_with_slippage_sell(sol_lamports, call.bps)
           instruction ==
               build_sell_instruction(global_account, call.payer, Mint, call.custom_ata,
                                      pool_info.creator_vault,
                                      SwapInfo(call.amount, sol_lamports_with_slippage))
       IN  IF IsErr(instruction)
           THEN /\ Return(instruction)
                /\ UNCHANGED instructions
           ELSE /\ instructions' = build_sol_sell_instructions(call.payer, Mint,
                                       instruction.val, call.close_mint_ata)
                /\ pc' = "build"
                /\ UNCHANGED result
    /\ UNCHANGED <<build_vars, initializers, quote_vars, swqos, global_account, call, fetch, pool_info, pool_token_amount,
                   pool_sol_amount, batch_items, signatures, txs_to_send, tasks, errors,
                   received>>

\* batch_buy / batch_sell after the join: the running reserves start at the
\* fetched ones
BatchStart ==
    /\ pc = "fetch"
    /\ call.op \in {"batch_buy", "batch_sell"}
    /\ FetchesJoined
    /\ pool_token_amount' = pool_info.token_reserves
    /\ pool_sol_amount' = pool_info.sol_reserves
    /\ batch_items' = <<>>
    /\ pc' = "batch"
    /\ UNCHANGED <<build_vars, initializers, quote_vars, swqos, global_account, call, fetch, pool_info, instructions,
                   signatures, txs_to_send, tasks, errors, received, result>>

BatchTxItem(payer, ixs) == [instructions |-> ixs, payer |-> payer]

\* variant of the update that adds the bought tokens to the running reserve
UpdateBuyReservesAdding(sol, token, item_sol_amount, buy_token_amount) ==
    [sol |-> sol + item_sol_amount, token |-> token + buy_token_amount]

\* variant of the update that keeps the fetched reserves for every item
UpdateBuyReservesStale(sol, token, item_sol_amount, buy_token_amount) ==
    [sol |-> sol, token |-> token]

\* variant that takes the tokens out without putting the sol in
UpdateBuyReservesKeepingSol(sol, token, item_sol_amount, buy_token_amount) ==
    [sol |-> sol, token |-> token - buy_token_amount]

\* pool_sol_amount += item.sol_amount; pool_token_amount -= buy_token_amount
UpdateBuyReserves(sol, token, item_sol_amount, buy_token_amount) ==
    [sol |-> sol + item_sol_amount, token |-> token - buy_token_amount]

\* one iteration of the loop of batch_buy
BatchBuyItem ==
    /\ pc = "batch"
    /\ call.op = "batch_buy"
    /\ Len(batch_items) < Len(call.items)
    /\ LET item == call.items[Len(batch_items) + 1]
           sol_lamports_with_slippage == calculate_with_slippage_buy(item.amount, call.bps)
           buy_token_amount ==
               amm_buy_get_token_out(pool_sol_amount, pool_token_amount, item.amount)
           instruction ==
               build_buy_instruction(global_account, item.payer, Mint,
                                     pool_info.creator_vault, SplTokenId,
                                     SwapInfo(buy_token_amount, sol_lamports_with_slippage))
           ata == build_token_account_instructions(item.payer, Mint, "Idempotent")
       IN  IF IsErr(instruction)
           THEN /\ Return(instruction)
                /\ UNCHANGED <<batch_items, pool_sol_amount, pool_token_amount>>
           ELSE /\ batch_items' = Append(batch_items,
                                         BatchTxItem(item.payer, Append(ata[2], instruction.val)))
                /\ pool_sol_amount' =
                       UpdateBuyReserves(pool_sol_amount, pool_token_amount,
                                         item.amount, buy_token_amount).sol
                /\ pool_token_amount' =
                       UpdateBuyReserves(pool_sol_amount, pool_token_amount,
                                         item.amount, buy_token_amount).token
                /\ UNCHANGED <<pc, result>>
    /\ UNCHANGED <<build_vars, initializers, quote_vars, swqos, global_account, call, fetch, pool_info, instructions,
                   signatures, txs_to_send, tasks, errors, received>>

\* one iteration of the loop of batch_sell
BatchSellItem ==
    /\ pc = "batch"
    /\ call.op = "batch_sell"
    /\ Len(batch_items) < Len(call.items)
    /\ LET item == call.items[Len(batch_items) + 1]
           sol_amount ==
               amm_sell_get_sol_out(pool_sol_amount, pool_token_amount, item.amount)
           sol_lamports_with_slippage == calculate_with_slippage_sell(sol_amount, call.bps)
           instruction ==
               build_sell_instruction(global_account, item.payer, Mint, item.custom_ata,
                                      pool_info.creator_vault,
                                      SwapInfo(sol_amount, sol_lamports_with_slippage))
       IN  IF IsErr(instruction)
           THEN /\ Return(instruction)
                /\ UNCHANGED <<batch_items, pool_sol_amount, pool_token_amount>>
           ELSE /\ batch_items' =
                       Append(batch_items,
                              BatchTxItem(item.payer,
                                          build_sol_sell_instructions(item.payer, Mint,
                                              instruction.val, item.close_mint_ata)))
                /\ pool_sol_amount' = pool_sol_amount - sol_amount
                /\ pool_token_amount' = pool_token_amount + item.amount
                /\ UNCHANGED <<pc, result>>
    /\ UNCHANGED <<build_vars, initializers, quote_vars, swqos, global_account, call, fetch, pool_info, instructions,
                   signatures, txs_to_send, tasks, errors, received>>

\* the loop is over: build_and_broadcast_batch_txs is called
BatchLoopDone ==
    /\ pc = "batch"
    /\ Len(batch_items) = Len(call.items)
    /\ pc' = "build"
    /\ UNCHANGED <<build_vars, initializers, quote_vars, swqos, global_account, call, fetch, pool_info, pool_token_amount,
                   pool_sol_amount, batch_items, instructions, signatures, txs_to_send,
                   tasks, errors, received, result>>

\* a caller (buy_immediately, sell_immediately, a venue's create) calls
\* TradingEndpoint::build_and_broadcast_tx with its own instructions
Broadcast(tx_type, nonce_ix, blockhashes, fee, tip) ==
    /\ pc = "idle"
    /\ call' = Call("broadcast", tx_type, Payer, 0, 0, fee, tip, <<>>, nonce_ix,
                    blockhashes, None, FALSE)
    /\ instructions' = <<Instruction("Venue", "trade", [payer |-> Payer]),
                         Instruction("Venue", "settle", [payer |-> Payer])>>
    /\ pc' = "build"
    /\ UNCHANGED <<build_vars, initializers, quote_vars, swqos, global_account, fetch, pool_info, pool_token_amount,
                   pool_sol_amount, batch_items, signatures, txs_to_send, tasks, errors,
                   received, result>>


(***************************************************************************)
(* TradingEndpoint::build_and_broadcast_tx and                             *)
(* build_and_broadcast_batch_txs.                                          *)
(***************************************************************************)
IsBatch == call.op \in {"batch_buy", "batch_sell"}

OptionToSeq(o) == IF IsSome(o) THEN <<Unwrap(o)>> ELSE <<>>

\* variant of the composition with the trade instructions before the tip
ComposeInstructionsTradeFirst(nonce_ix, fee_instructions, tip_instruction, main) ==
    OptionToSeq(nonce_ix) \o fee_instructions \o main \o OptionToSeq(tip_instruction)

\* the instruction list of one transaction of build_and_broadcast_tx
ComposeInstructions(nonce_ix, fee_instructions, tip_instruction, main) ==
    OptionToSeq(nonce_ix) \o fee_instructions \o OptionToSeq(tip_instruction) \o main

\* the instruction list of one transaction of build_and_broadcast_batch_txs
ComposeBatchInstructions(fee_instructions, tip_instruction, main) ==
    fee_instructions \o OptionToSeq(tip_instruction) \o main

\* blockhashes[index % blockhashes.len()], index counted from 0
CycleBlockhash(blockhashes, index) == blockhashes[(index % Len(blockhashes)) + 1]

\* variant in which the submission of runtime i starts as soon as its
\* transactions are built
PushTaskEager(rcv, i, request) == [rcv EXCEPT ![i] = Append(@, request)]

\* what the relays have been sent once runtime i's transactions are built:
\* txs_to_send.push / tasks.push only store them, the future is not polled
PushTask(rcv, i, request) == rcv

\* one iteration of the loop of build_and_broadcast_tx
BuildTx ==
    /\ pc = "build"
    /\ ~IsBatch
    /\ Len(txs_to_send) < N
    /\ LET i == Len(txs_to_send) + 1
           rt == swqos[i]
       IN  \E tip_account \in GetTipAccount(rt) :
             LET fee_instructions == build_fee_instructions(rt, call.tx_type, call.fee)
                 tip_config == get_tip_config(rt, call.tx_type, call.tip, tip_account)
             IN  IF IsErr(tip_config)
                 THEN /\ Return(tip_config)
                      /\ UNCHANGED <<signatures, txs_to_send, received>>
                 ELSE LET transaction_instructions ==
                              ComposeInstructions(call.nonce_ix, fee_instructions,
                                  build_tip_instruction(call.payer, tip_config.val),
                                  instructions)
                          blockhash == CycleBlockhash(call.blockhashes, i - 1)
                          tx == build_legacy_transaction(call.payer, transaction_instructions,
                                                         blockhash, None).val
                      IN  /\ signatures' = Append(signatures, FirstSignature(tx))
                          /\ txs_to_send' = Append(txs_to_send, <<tx>>)
                          /\ received' = PushTask(received, i, <<tx>>)
                          /\ UNCHANGED <<pc, result>>
    /\ UNCHANGED <<build_vars, initializers, quote_vars, swqos, global_account, call, fetch, pool_info, pool_token_amount,
                   pool_sol_amount, batch_items, instructions, tasks, errors>>

\* variant that puts the tip transfer into the first item's transaction only
BatchTxsTipInFirstOnly(items, fee_instructions, tip_config, blockhash, failing) ==
    [k \in 1..(IF failing = 0 THEN Len(items) ELSE failing - 1) |->
        build_transaction(items[k].payer,
                          ComposeBatchInstructions(fee_instructions,
                              IF k = 1 THEN build_tip_instruction(items[k].payer, tip_config)
                              ELSE None,
                              items[k].instructions),
                          blockhash, None, TRUE).val]


\* the transactions of the items before the first one that fails to compile
\* (failing = 0: none fails)
BatchTxs(items, fee_instructions, tip_config, blockhash, failing) ==
    [k \in 1..(IF failing = 0 THEN Len(items) ELSE failing - 1) |->
        build_transaction(items[k].payer,
                          ComposeBatchInstructions(fee_instructions,
                              build_tip_instruction(items[k].payer, tip_config),
                              items[k].instructions),
                          blockhash, None, TRUE).val]

\* one iteration of the loop of build_and_broadcast_batch_txs
BuildBatchTxs ==
    /\ pc = "build"
    /\ IsBatch
    /\ Len(txs_to_send) < N
    /\ LET i == Len(txs_to_send) + 1
           rt == swqos[i]
       IN  \E tip_account \in GetTipAccount(rt), failing \in 0..Len(batch_items) :
             LET tip_config == get_tip_config(rt, call.tx_type, call.tip, tip_account)
                 fee_instructions == build_fee_instructions(rt, call.tx_type, call.fee)
             IN  IF IsErr(tip_config)
                 THEN /\ Return(tip_config)
                      /\ UNCHANGED <<signatures, txs_to_send, tasks, received>>
                 ELSE IF failing # 0
                 THEN /\ Return(Err([kind |-> "TransactionError",
                                     what |-> build_transaction(batch_items[failing].payer,
                                                  <<>>, call.blockhashes[1], None, FALSE).err]))
                      /\ UNCHANGED <<signatures, txs_to_send, tasks, received>>
                 ELSE LET txs == BatchTxs(batch_items, fee_instructions, tip_config.val,
                                          call.blockhashes[1], 0)
                      IN  /\ signatures' =
                                 signatures \o [k \in DOMAIN txs |-> FirstSignature(txs[k])]
                          /\ txs_to_send' = Append(txs_to_send, txs)
                          /\ tasks' = [tasks EXCEPT ![i] = "pending"]
                          /\ received' = PushTask(received, i, txs)
                          /\ UNCHANGED <<pc, result>>
    /\ UNCHANGED <<build_vars, initializers, quote_vars, swqos, global_account, call, fetch, pool_info, pool_token_amount,
                   pool_sol_amount, batch_items, instructions, errors>>

\* variant in which every task submits the first runtime's transactions
TaskTxsShared(i) == txs_to_send[1]

\* the transactions the task of runtime i submits: its own
TaskTxs(i) == txs_to_send[i]

\* swqos_json_post reads request.transactions[0] before it posts: the
\* clients that post through it panic on an empty request
PostPanics(rt, txs) == rt.client.kind # "Default" /\ Len(txs) = 0

\* join_all(tasks).await is polled for the first time: every task runs up
\* to its HTTP request, in order; a task that panics unwinds the call and
\* the tasks after it are never polled
JoinAllPoll ==
    /\ pc = "build"
    /\ Len(txs_to_send) = N
    /\ LET panicking == {i \in Runtimes : PostPanics(swqos[i], TaskTxs(i))}
           polled == {i \in Runtimes : \A k \in panicking : i < k}
       IN  /\ pc' = IF panicking = {} THEN "send" ELSE "panicked"
           /\ tasks' = [i \in Runtimes |-> IF i \in polled THEN "inflight" ELSE tasks[i]]
           /\ received' = [i \in Runtimes |->
                              IF i \in polled THEN Append(received[i], TaskTxs(i))
                              ELSE received[i]]
    /\ UNCHANGED <<build_vars, initializers, quote_vars, swqos, global_account, call, fetch, pool_info, pool_token_amount,
                   pool_sol_amount, batch_items, instructions, signatures, txs_to_send,
                   errors, result>>

\* how a submission can end: accepted, the HTTP client's timeout, a response
\* body that is not JSON, a JSON response with an "error" member
SubmissionOutcomes == {"ok", "timeout", "bad_response", "rpc_error"}
SubmissionFailures == SubmissionOutcomes \ {"ok"}

\* the error DefaultSWQoSClient returns names the provider and the cause
DefaultSubmissionError(rt, outcome) ==
    [name |-> Some(rt.client.name), kind |-> "Custom", cause |-> outcome]

\* the SWQoSError a failed submission returns: the message swqos_json_post
\* formats for a JSON "error" member carries request.name; the errors of
\* send() and text() (reqwest) and of serde_json::from_str are converted by
\* ? and carry nothing of the request
SubmissionError(rt, outcome) ==
    CASE rt.client.kind = "Default" -> DefaultSubmissionError(rt, outcome)
      [] outcome = "rpc_error" ->
             [name |-> Some(rt.client.name), kind |-> "Custom", cause |-> outcome]
      [] outcome = "timeout" ->
             [name |-> None, kind |-> "Reqwest", cause |-> outcome]
      [] outcome = "bad_response" ->
             [name |-> None, kind |-> "SerdeJson", cause |-> outcome]

\* variant of the task that resubmits its request when the submission fails
SendTransactionRetrying(rcv, i, outcome) ==
    IF outcome \in SubmissionFailures THEN [rcv EXCEPT ![i] = Append(@, TaskTxs(i))]
    ELSE rcv

\* what the task of runtime i sends once its submission has ended: the task
\* is the one future swqos.send_transaction(tx), whose result join_all
\* collects as it is; nothing is sent again
SendTransaction(rcv, i, outcome) == rcv

\* the submission of runtime i completes
Complete(i, outcome) ==
    /\ pc = "send"
    /\ tasks[i] = "inflight"
    /\ tasks' = [tasks EXCEPT ![i] = outcome]
    /\ errors' = [errors EXCEPT ![i] = IF outcome = "ok" THEN None
                                       ELSE Some(SubmissionError(swqos[i], outcome))]
    /\ received' = SendTransaction(received, i, outcome)
    /\ UNCHANGED <<build_vars, initializers, quote_vars, swqos, global_account, pc, call, fetch, pool_info, pool_token_amount,
                   pool_sol_amount, batch_items, instructions, signatures, txs_to_send,
                   result>>

\* variant of the join with the semantics of try_join_all: ready at the
\* first failed task
JoinAllReadyFailFast(t) ==
    \/ \E i \in DOMAIN t : t[i] \in SubmissionFailures
    \/ \A i \in DOMAIN t : t[i] \in SubmissionOutcomes

\* join_all is ready when every task has completed
JoinAllReady(t) == \A i \in DOMAIN t : t[i] \in SubmissionOutcomes

RECURSIVE FilterMapErr(_)
\* results.into_iter().filter_map(Result::err).collect()
FilterMapErr(errs) ==
    IF Len(errs) = 0 THEN <<>>
    ELSE OptionToSeq(errs[1]) \o FilterMapErr(Tail(errs))

\* variant that reports an error when nothing was signed
BroadcastResultRequiringSignatures(errs, sigs) ==
    IF Len(FilterMapErr(errs)) # 0 \/ Len(sigs) = 0
    THEN Err([errors |-> FilterMapErr(errs),
              kind |-> "CustomError",
              what |-> "Errors occurred while sending"])
    ELSE Ok(sigs)

\* the value the call returns after the fan-out
BroadcastResult(errs, sigs) ==
    IF Len(FilterMapErr(errs)) # 0
    THEN Err([errors |-> FilterMapErr(errs),
              kind |-> "CustomError",
              what |-> "Errors occurred while sending"])
    ELSE Ok(sigs)

\* join_all returns and the call returns
ReturnResults ==
    /\ pc = "send"
    /\ JoinAllReady(tasks)
    /\ Return(BroadcastResult(errors, signatures))
    /\ UNCHANGED <<build_vars, initializers, quote_vars, swqos, global_account, call, fetch, pool_info, pool_token_amount,
                   pool_sol_amount, batch_items, instructions, signatures, txs_to_send,
                   tasks, errors, received>>

(***************************************************************************)
(* The specification.                                                      *)
(***************************************************************************)
Next ==
    \/ Initialize
    \/ \E tip \in {None, Some(3)} : Buy(10, 500, None, tip)
    \/ \E fee \in AdditionalFees : Sell(500, None, TRUE, fee, 0)
    \/ \E m \in 0..MaxItems : BatchBuy(500, PriorityFee(50000, 20), 3, BatchItems(m))
    \/ \E m \in 0..MaxItems : BatchSell(500, PriorityFee(50000, 20), 0, BatchItems(m))
    \/ \E tx_type \in TransactionTypes, nonce_ix \in {None, Some(AdvanceNonce)} :
           Broadcast(tx_type, nonce_ix, <<"h1", "h2">>, Some(PriorityFee(50000, 20)), 3)
    \/ \E ok \in BOOLEAN : FetchPool(ok)
    \/ \E ok \in BOOLEAN : FetchBlockhash(ok)
    \/ \E ok \in BOOLEAN : FetchAmount(ok)
    \/ FetchJoinFailed
    \/ BuyPrice
    \/ SellPrice
    \/ BatchStart
    \/ BatchBuyItem
    \/ BatchSellItem
    \/ BatchLoopDone
    \/ BuildTx
    \/ BuildBatchTxs
    \/ JoinAllPoll
    \/ \E i \in Runtimes, outcome \in SubmissionOutcomes : Complete(i, outcome)
    \/ ReturnResults

Spec == Init /\ [][Next]_vars

(***************************************************************************)
(* SWQoSConfig::build_runtimes, and the tip accounts the runtimes it       *)
(* returns report to the build loop of one call.                           *)
(***************************************************************************)
\* the variables of the call, which the construction of runtimes leaves alone
call_vars == <<swqos, global_account, pc, call, fetch, pool_info, pool_token_amount,
               pool_sol_amount, batch_items, instructions, signatures, txs_to_send,
               tasks, errors, received, result>>

\* a provider's constant tip-account array of p distinct addresses
TipAccountPool(p) == [k \in 1..p |-> Pubkey("tip" \o ToString(k))]

\* the configurations build_runtimes is called on
BuildConfigs ==
    {SWQoSConfig(k, threads, None, None, None, None) :
        k \in SWQoSKinds, threads \in 0..MaxThreads}
    \cup {SWQoSConfig(k, threads, Some(5), Some(PriorityFee(100000, 10)), Some(7), None) :
        k \in SWQoSKinds, threads \in 0..MaxThreads}

\* before build_runtimes: a configuration and the array of its provider
InitRuntimes ==
    /\ \E c \in BuildConfigs, p \in 1..MaxPool :
           /\ swqos_config = c
           /\ provider_pool = IF c.kind = "Default" THEN <<>> ELSE TipAccountPool(p)
    /\ runtimes = None
    /\ reported = {}
    /\ initializers = NoInitializers
    /\ amm = NoQuote
    /\ fees = NoFees
    /\ swqos = <<>>
    /\ global_account = None
    /\ pc = "idle"
    /\ call = NoCall
    /\ fetch = [blockhash |-> "none", amount |-> "none", pool |-> "none"]
    /\ pool_info = NoPool
    /\ pool_token_amount = 0
    /\ pool_sol_amount = 0
    /\ batch_items = <<>>
    /\ instructions = <<>>
    /\ signatures = <<>>
    /\ txs_to_send = <<>>
    /\ tasks = <<>>
    /\ errors = <<>>
    /\ received = <<>>
    /\ result = None

\* self.build_runtimes(rpc_client)
BuildRuntimes ==
    /\ IsNone(runtimes)
    /\ runtimes' = Some(build_runtimes(swqos_config, provider_pool))
    /\ UNCHANGED <<swqos_config, provider_pool, reported, initializers, quote_vars, call_vars>>

\* the build loop of a call asks runtime i for its tip account; a call asks
\* every runtime once, and two answers are followed here
ReportTipAccount(i) ==
    /\ IsSome(runtimes)
    /\ i \in 1..Len(Unwrap(runtimes))
    /\ Cardinality(reported) < 2
    /\ \A r \in reported : r.instance # i
    /\ \E account \in get_tip_account(Unwrap(runtimes)[i].client, provider_pool) :
           reported' = reported \cup {[account |-> account, instance |-> i]}
    /\ UNCHANGED <<swqos_config, provider_pool, runtimes, initializers, quote_vars, call_vars>>

NextRuntimes ==
    \/ BuildRuntimes
    \/ \E i \in 1..Max(MaxThreads, MaxPool) : ReportTipAccount(i)

SpecRuntimes == InitRuntimes /\ [][NextRuntimes]_vars

(***************************************************************************)
(* Pumpfun::initialize, called by several callers on one client.           *)
(***************************************************************************)
\* the contents of the global account the ledger may return to a fetch
GlobalAccounts == {"GlobalAccount", "GlobalAccount2"}

\* the client after TradingClient::new, before any initialize
InitInitialize ==
    /\ swqos_config = SWQoSConfig("Default", 1, None, None, None, None)
    /\ provider_pool = <<>>
    /\ runtimes = None
    /\ reported = {}
    /\ initializers = NoInitializers
    /\ amm = NoQuote
    /\ fees = NoFees
    /\ swqos = <<>>
    /\ global_account = None
    /\ pc = "idle"
    /\ call = NoCall
    /\ fetch = [blockhash |-> "none", amount |-> "none", pool |-> "none"]
    /\ pool_info = NoPool
    /\ pool_token_amount = 0
    /\ pool_sol_amount = 0
    /\ batch_items = <<>>
    /\ instructions = <<>>
    /\ signatures = <<>>
    /\ txs_to_send = <<>>
    /\ tasks = <<>>
    /\ errors = <<>>
    /\ received = <<>>
    /\ result = None

\* what initialize leaves alone
initialize_frame == <<build_vars, quote_vars, swqos, pc, call, fetch, pool_info, pool_token_amount,
                      pool_sol_amount, batch_items, instructions, signatures, txs_to_send,
                      tasks, errors, received, result>>

\* caller c calls initialize: rpc.get_account(&PUBKEY_GLOBAL_ACCOUNT) is awaited
InitializeCall(c) ==
    /\ initializers[c].at = "idle"
    /\ initializers' = [initializers EXCEPT ![c] = Initializer("fetching", None)]
    /\ UNCHANGED <<global_account, initialize_frame>>

\* the fetch of caller c completes: with an account that deserializes, or
\* with an error that ? returns
InitializeFetched(c, ok) ==
    /\ initializers[c].at = "fetching"
    /\ IF ok
       THEN \E account \in GlobalAccounts :
                initializers' = [initializers EXCEPT ![c] = Initializer("fetched", Some(account))]
       ELSE initializers' = [initializers EXCEPT ![c] = Initializer("fetch_failed", None)]
    /\ UNCHANGED <<global_account, initialize_frame>>

\* variant of the cell that stores every value it is given
OnceCellSetOverwriting(cell, value) == [ok |-> TRUE, cell |-> Some(value)]

\* once_cell::sync::OnceCell::set: stores the value when the cell is empty,
\* and otherwise returns Err and keeps what it holds
OnceCellSet(cell, value) ==
    IF IsNone(cell) THEN [ok |-> TRUE, cell |-> Some(value)]
    ELSE [ok |-> FALSE, cell |-> cell]

\* self.global_account.set(global_account).map_err(..)?; Ok(())
InitializeSet(c) ==
    /\ initializers[c].at = "fetched"
    /\ LET set == OnceCellSet(global_account, Unwrap(initializers[c].account))
       IN  /\ global_account' = set.cell
           /\ initializers' =
                  [initializers EXCEPT ![c] =
                      Initializer(IF set.ok THEN "ok" ELSE "already_set", @.account)]
    /\ UNCHANGED initialize_frame

NextInitialize ==
    \/ \E c \in Callers : InitializeCall(c)
    \/ \E c \in Callers, ok \in BOOLEAN : InitializeFetched(c, ok)
    \/ \E c \in Callers : InitializeSet(c)

SpecInitialize == InitInitialize /\ [][NextInitialize]_vars

(***************************************************************************)
(* The pricing done by buy and sell, and the fee resolution done for each  *)
(* runtime, on their own: the inputs are drawn at the start, the actions   *)
(* apply the functions as buy, sell and get_fee_config do.                 *)
(***************************************************************************)
MaxReserve == 6
MaxAmountIn == 8
MaxUnitPrice == 2

\* non-zero reserves, small and large
Reserves == (1..MaxReserve) \cup {1000}
\* amounts traded, with zero
Amounts == (0..MaxAmountIn) \cup {1000}
\* slippage_basis_points: none, the least, 5%, 100% and 200%
SlippageBps == {0, 1, 500, BpsDenominator, 2 * BpsDenominator}

\* the quotes that can be asked for
QuoteInputs ==
    {[sol_reserves |-> s, token_reserves |-> t, amount |-> a, bps |-> b, at |-> "input", out |-> 0, with_slippage |-> 0] :
         s \in Reserves, t \in Reserves, a \in Amounts, b \in SlippageBps}

\* unit limits from zero up to the largest u32, unit prices from zero
UnitLimits == {0, 1, U32Max \div 2, U32Max - 1, U32Max}
UnitPrices == 0..MaxUnitPrice
FeeOptions == {None} \cup {Some(PriorityFee(l, p)) : l \in UnitLimits, p \in UnitPrices}

\* the fee resolutions that can be asked for: a configured and a per-call fee
FeeInputs ==
    {[at |-> "input", out |-> None, base |-> a, additional |-> b, swapped |-> None] :
         a \in FeeOptions, b \in FeeOptions}

InitQuotes ==
    /\ \/ amm \in QuoteInputs /\ fees = NoFees
       \/ amm = NoQuote /\ fees \in FeeInputs
    /\ swqos_config = SWQoSConfig("Default", 1, None, None, None, None)
    /\ provider_pool = <<>>
    /\ runtimes = None
    /\ reported = {}
    /\ initializers = NoInitializers
    /\ swqos = <<>>
    /\ global_account = None
    /\ pc = "idle"
    /\ call = NoCall
    /\ fetch = [blockhash |-> "none", amount |-> "none", pool |-> "none"]
    /\ pool_info = NoPool
    /\ pool_token_amount = 0
    /\ pool_sol_amount = 0
    /\ batch_items = <<>>
    /\ instructions = <<>>
    /\ signatures = <<>>
    /\ txs_to_send = <<>>
    /\ tasks = <<>>
    /\ errors = <<>>
    /\ received = <<>>
    /\ result = None

\* what a quote and a fee resolution leave alone
quote_frame == <<build_vars, initializers, call_vars>>

\* DexTrait::buy prices sol_amount = amm.amount on the reserves
QuoteBuy ==
    /\ amm.at = "input"
    /\ LET buy_token_amount ==
               amm_buy_get_token_out(amm.sol_reserves, amm.token_reserves, amm.amount)
           sol_lamports_with_slippage == calculate_with_slippage_buy(amm.amount, amm.bps)
       IN  amm' = [amm EXCEPT !.at = "buy", !.out = buy_token_amount,
                              !.with_slippage = sol_lamports_with_slippage]
    /\ UNCHANGED <<fees, quote_frame>>

\* DexTrait::sell prices token_amount = amm.amount on the reserves
QuoteSell ==
    /\ amm.at = "input"
    /\ LET sol_lamports ==
               amm_sell_get_sol_out(amm.sol_reserves, amm.token_reserves, amm.amount)
           sol_lamports_with_slippage == calculate_with_slippage_sell(sol_lamports, amm.bps)
       IN  amm' = [amm EXCEPT !.at = "sell", !.out = sol_lamports,
                              !.with_slippage = sol_lamports_with_slippage]
    /\ UNCHANGED <<fees, quote_frame>>

\* a Default runtime whose configured buy fee is the given one
RuntimeWithFee(fee) ==
    SWQoSRuntime(SWQoSConfig("Default", 1, None, fee, None, None), SWQoSClient("Default", <<>>))

\* TradingEndpoint::get_fee_config for a Buy: configured fee base, per-call
\* fee additional
ResolveFee ==
    /\ fees.at = "input"
    /\ fees' = [fees EXCEPT !.at = "resolved",
                            !.out = get_fee_config(RuntimeWithFee(fees.base), "Buy", fees.additional)]
    /\ UNCHANGED <<amm, quote_frame>>

\* the same resolution with the two fees exchanged
ResolveFeeSwapped ==
    /\ fees.at = "resolved"
    /\ fees' = [fees EXCEPT !.at = "both",
                            !.swapped = get_fee_config(RuntimeWithFee(fees.additional), "Buy", fees.base)]
    /\ UNCHANGED <<amm, quote_frame>>

NextQuotes ==
    \/ QuoteBuy
    \/ QuoteSell
    \/ ResolveFee
    \/ ResolveFeeSwapped

SpecQuotes == InitQuotes /\ [][NextQuotes]_vars

(***************************************************************************)
(* Properties of the fan-out.                                              *)
(***************************************************************************)
\* the fan-out has started: some submission is in flight or has completed
FanOutStarted == \E i \in Runtimes : tasks[i] \in {"inflight"} \cup SubmissionOutcomes

\* the submission of runtime i failed
Failed(i) == tasks[i] \in SubmissionFailures

ReturnedSignatures(r) ==
    IF IsOk(r) THEN r.val
    ELSE IF "signatures" \in DOMAIN r.err THEN r.err.signatures
    ELSE <<>>

\* the number of signatures the build loops compute in a complete call
ExpectedSignatures == IF IsBatch THEN N * Len(batch_items) ELSE N

\* C2: when a submission has failed, the value the call returns carries the
\* signatures computed for all the runtimes together with the aggregate error
C2_SignaturesReturnedWithError ==
    (pc = "done" /\ \E i \in Runtimes : Failed(i)) =>
        /\ IsErr(Unwrap(result))
        /\ Len(signatures) = ExpectedSignatures
        /\ ReturnedSignatures(Unwrap(result)) = signatures

\* C3: after the fan-out the call fails exactly when a submission failed,
\* and the aggregate error lists the name and the cause of every failing
\* provider and of no other
C3_AggregateErrorListsFailingProviders ==
    (pc = "done" /\ FanOutStarted) =>
        LET failing == {i \in Runtimes : Failed(i)}
            r == Unwrap(result)
        IN  /\ IsErr(r) <=> failing # {}
            /\ IsErr(r) =>
                   /\ \A i \in failing : \E k \in DOMAIN r.err.errors :
                          /\ r.err.errors[k].name = Some(swqos[i].client.name)
                          /\ r.err.errors[k].cause = tasks[i]
                   /\ \A k \in DOMAIN r.err.errors : \E i \in failing :
                          r.err.errors[k].name = Some(swqos[i].client.name)

(***************************************************************************)
(* Properties of the fetches and of the build loop.                        *)
(***************************************************************************)
\* the call in progress is one of the DexTrait trades
DexCall == call.op \in {"buy", "sell", "batch_buy", "batch_sell"}

FetchFailed == \E x \in DOMAIN fetch : fetch[x] = "err"

\* the call has priced, built or submitted something
PastFetch ==
    \/ pc \in {"batch", "build", "send", "panicked"}
    \/ instructions # <<>>
    \/ batch_items # <<>>
    \/ txs_to_send # <<>>
    \/ \E i \in Runtimes : received[i] # <<>>

\* C4: a trade whose pool, blockhash or (sell) token-amount fetch failed
\* prices, builds and submits nothing and returns an error; a trade that has
\* priced, built or submitted has all its fetches succeeded
C4_FetchFailureAbortsCall ==
    DexCall =>
        /\ FetchFailed =>
               /\ ~PastFetch
               /\ \A i \in Runtimes : received[i] = <<>>
               /\ pc = "done" => IsErr(Unwrap(result))
        /\ PastFetch =>
               /\ fetch.pool = "ok"
               /\ fetch.blockhash = "ok"
               /\ call.op = "sell" => fetch.amount = "ok"

\* a sell has returned after its token-amount query failed while the pool
\* fetch had succeeded
C4_Witness ==
    /\ pc = "done"
    /\ call.op = "sell"
    /\ fetch.amount = "err"
    /\ fetch.pool = "ok"
    /\ IsErr(Unwrap(result))

\* C5: no runtime is sent anything before the transactions of all N runtimes
\* are built and their signatures recorded; a call that ends inside the
\* build loop returns an error and no runtime has been sent anything
C5_NoSubmissionBeforeAllBuilt ==
    /\ (\E i \in Runtimes : received[i] # <<>>) \/ FanOutStarted =>
           /\ Len(txs_to_send) = N
           /\ Len(signatures) = ExpectedSignatures
    /\ (pc = "done" /\ Len(txs_to_send) < N) =>
           /\ IsErr(Unwrap(result))
           /\ \A i \in Runtimes : received[i] = <<>>

\* a call has failed at a runtime after the first one, whose transactions
\* were already built
C5_Witness ==
    /\ pc = "done"
    /\ Len(txs_to_send) >= 1
    /\ Len(txs_to_send) < N
    /\ IsErr(Unwrap(result))
    /\ \A i \in Runtimes : received[i] = <<>>

(***************************************************************************)
(* Properties of the fee / tip policy and of the assembled transactions.   *)
(***************************************************************************)
\* the runtime's provider reports a tip account
ReportsTipAccount(rt) == None \notin GetTipAccount(rt)

\* the value the policy is specified to resolve for an operation kind
ExpectedTip(config, tx_type) ==
    IF tx_type = "Sell" /\ IsSome(config.sell_tip) THEN config.sell_tip ELSE config.buy_tip

ExpectedFee(config, tx_type) ==
    IF tx_type = "Sell" /\ IsSome(config.sell_fee) THEN config.sell_fee ELSE config.buy_fee

\* a transfer of lamports by the System program
IsTransfer(instruction) == instruction.program = "System" /\ instruction.ix = "transfer"

\* a transfer to one of the tip accounts of the runtime's provider
IsTipTransfer(instruction, rt) ==
    IsTransfer(instruction) /\ Some(instruction.args.to) \in GetTipAccount(rt)

IsComputeBudget(instruction) == instruction.program = "ComputeBudget"

IxsOf(tx) == tx.message.instructions

HasTip(tx, rt) == \E j \in DOMAIN IxsOf(tx) : IsTipTransfer(IxsOf(tx)[j], rt)

\* C6: no transaction without a tip transfer is ever sent to a runtime that
\* reports a tip account; no transaction is even built for such a runtime
\* when no tip amount resolves for the operation kind, and the call then
\* returns an error with nothing sent, whatever the additional tip
C6_FailClosedTipping ==
    /\ \A i \in Runtimes : \A request \in Range(received[i]) : \A tx \in Range(request) :
           ReportsTipAccount(swqos[i]) => HasTip(tx, swqos[i])
    /\ \A i \in 1..Len(txs_to_send) :
           ReportsTipAccount(swqos[i]) => IsSome(ExpectedTip(swqos[i].config, call.tx_type))
    /\ \A i \in Runtimes :
           (/\ pc = "done"
            /\ ReportsTipAccount(swqos[i])
            /\ IsNone(ExpectedTip(swqos[i].config, call.tx_type))) =>
               /\ IsErr(Unwrap(result))
               /\ \A j \in Runtimes : received[j] = <<>>

\* a call that supplied an additional tip has failed because no tip amount
\* resolves for a runtime that reports a tip account
C6_Witness ==
    /\ pc = "done"
    /\ call.tip > 0
    /\ IsErr(Unwrap(result))
    /\ Unwrap(result).err.what = "No tip configured"
    /\ \E i \in Runtimes :
           /\ ReportsTipAccount(swqos[i])
           /\ IsNone(ExpectedTip(swqos[i].config, call.tx_type))

\* C7: a transaction built for a runtime without tip account holds no
\* transfer, and a missing tip amount never fails the call at such a
\* runtime; a transaction built for a runtime with a tip account holds
\* exactly one tip transfer, from its payer, of the tip resolved for that
\* runtime plus the additional tip
C7_NoTipAccountNoTipInstruction ==
    /\ \A i \in 1..Len(txs_to_send) : \A tx \in Range(txs_to_send[i]) :
           LET transfers == SelectSeq(IxsOf(tx), IsTransfer)
           IN  IF ReportsTipAccount(swqos[i])
               THEN /\ Len(transfers) = 1
                    /\ IsTipTransfer(transfers[1], swqos[i])
                    /\ transfers[1].args.from = tx.message.payer
                    /\ transfers[1].args.lamports =
                           Unwrap(ExpectedTip(swqos[i].config, call.tx_type)) + call.tip
               ELSE transfers = <<>>
    /\ (/\ pc = "done"
        /\ IsErr(Unwrap(result))
        /\ Unwrap(result).err.what = "No tip configured") =>
           /\ Len(txs_to_send) < N
           /\ ReportsTipAccount(swqos[Len(txs_to_send) + 1])
           /\ Unwrap(result).err.name = swqos[Len(txs_to_send) + 1].client.name

\* a call over a runtime without tip account and without any tip amount,
\* followed by a runtime with a tip account, has built both transactions
\* and returned success
C7_Witness ==
    /\ pc = "done"
    /\ IsOk(Unwrap(result))
    /\ ~IsBatch
    /\ N >= 2
    /\ ~ReportsTipAccount(swqos[1])
    /\ IsNone(swqos[1].config.buy_tip)
    /\ IsNone(swqos[1].config.sell_tip)
    /\ ReportsTipAccount(swqos[2])
    /\ ~HasTip(txs_to_send[1][1], swqos[2])
    /\ HasTip(txs_to_send[2][1], swqos[2])

\* the compute-budget instructions of a fee
FeeInstructions(fee) ==
    IF IsSome(fee)
    THEN <<SetComputeUnitPrice(Unwrap(fee).unit_price),
           SetComputeUnitLimit(Unwrap(fee).unit_limit)>>
    ELSE <<>>

\* C8: for every configuration, Buy and Create resolve the buy value and
\* Sell the sell value when it is set, the buy value otherwise, for the tip
\* and for the fee alike; the transactions built carry the values so resolved
C8_ResolutionByOperationKind ==
    /\ \A i \in Runtimes : \A t \in TransactionTypes :
           LET tip == get_default_tip_for_tx_type(swqos[i], t)
               expected == ExpectedTip(swqos[i].config, t)
           IN  /\ IsOk(tip) <=> IsSome(expected)
               /\ IsOk(tip) => tip.val = Unwrap(expected)
               /\ get_fee_config(swqos[i], t, None) = ExpectedFee(swqos[i].config, t)
    /\ \A i \in 1..Len(txs_to_send) : \A tx \in Range(txs_to_send[i]) :
           /\ \A j \in DOMAIN IxsOf(tx) :
                  IsTipTransfer(IxsOf(tx)[j], swqos[i]) =>
                      IxsOf(tx)[j].args.lamports =
                          Unwrap(ExpectedTip(swqos[i].config, call.tx_type)) + call.tip
           /\ IsNone(call.fee) =>
                  SelectSeq(IxsOf(tx), IsComputeBudget) =
                      FeeInstructions(ExpectedFee(swqos[i].config, call.tx_type))

\* a sell without additional fee has built its transaction for a runtime
\* that has a tip account and both values of the tip and of the fee set
C8_Witness ==
    /\ call.tx_type = "Sell"
    /\ ~IsBatch
    /\ IsNone(call.fee)
    /\ N = 1
    /\ Len(txs_to_send) = 1
    /\ ReportsTipAccount(swqos[1])
    /\ IsSome(swqos[1].config.buy_tip) /\ IsSome(swqos[1].config.sell_tip)
    /\ IsSome(swqos[1].config.buy_fee) /\ IsSome(swqos[1].config.sell_fee)
    /\ HasTip(txs_to_send[1][1], swqos[1])

\* the place of an instruction in the order of assembly
IxRank(instruction) ==
    CASE instruction.program = "System" /\ instruction.ix = "advance_nonce_account" -> 0
      [] IsComputeBudget(instruction) -> 1
      [] IsTransfer(instruction) -> 2
      [] OTHER -> 3

\* the trade instructions handed to the build loop for the k-th transaction
\* of a runtime
MainOf(k) == IF IsBatch THEN batch_items[k].instructions ELSE instructions

\* C9: every transaction built lists the nonce advance (if any) first, then
\* the compute-budget instructions, then the tip transfer (if any), then the
\* trade instructions as supplied; no trade instruction precedes a fee or
\* tip instruction
C9_InstructionOrder ==
    \A i \in 1..Len(txs_to_send) : \A k \in DOMAIN txs_to_send[i] :
        LET ixs == IxsOf(txs_to_send[i][k])
            main == MainOf(k)
            head == Len(ixs) - Len(main)
        IN  /\ head >= 0
            /\ SubSeq(ixs, head + 1, Len(ixs)) = main
            /\ \A j \in 1..head : IxRank(ixs[j]) < 3
            /\ \A j \in head + 1..Len(ixs) : IxRank(ixs[j]) = 3
            /\ \A a, b \in 1..head : a < b => IxRank(ixs[a]) <= IxRank(ixs[b])
            /\ \A j \in 1..head : IxRank(ixs[j]) = 0 => j = 1
            /\ (IsSome(call.nonce_ix) /\ ~IsBatch) => (head >= 1 /\ ixs[1] = Unwrap(call.nonce_ix))
            /\ SelectSeq(ixs, IsComputeBudget) =
                   build_fee_instructions(swqos[i], call.tx_type, call.fee)

\* a transaction has been built with a nonce advance, two compute-budget
\* instructions, a tip transfer and two trade instructions
C9_Witness ==
    /\ ~IsBatch
    /\ IsSome(call.nonce_ix)
    /\ Len(instructions) = 2
    /\ \E i \in 1..Len(txs_to_send) :
           /\ Len(IxsOf(txs_to_send[i][1])) = 6
           /\ HasTip(txs_to_send[i][1], swqos[i])

\* C10: a single-trade call builds exactly one transaction per runtime, on
\* that runtime's blockhash slot, and sends each runtime one request holding
\* exactly its transaction; on success it returns N signatures, the i-th
\* being the first signature of the transaction sent to runtime i
C10_OneTransactionPerRuntime ==
    ~IsBatch =>
        /\ Len(signatures) = Len(txs_to_send)
        /\ \A i \in 1..Len(txs_to_send) :
               /\ Len(txs_to_send[i]) = 1
               /\ txs_to_send[i][1].message.recent_blockhash =
                      CycleBlockhash(call.blockhashes, i - 1)
               /\ signatures[i] = FirstSignature(txs_to_send[i][1])
        /\ \A i \in Runtimes : received[i] # <<>> => received[i] = <<txs_to_send[i]>>
        /\ (pc = "done" /\ IsOk(Unwrap(result))) =>
               /\ Len(Unwrap(result).val) = N
               /\ \A i \in Runtimes :
                      /\ Len(received[i]) = 1
                      /\ Len(received[i][1]) = 1
                      /\ Unwrap(result).val[i] = FirstSignature(received[i][1][1])

\* a single-trade call over two or more runtimes has returned success with
\* distinct signatures for the first two runtimes
C10_Witness ==
    /\ pc = "done"
    /\ ~IsBatch
    /\ N >= 2
    /\ IsOk(Unwrap(result))
    /\ Unwrap(result).val[1] # Unwrap(result).val[2]
    /\ \A i \in Runtimes : tasks[i] = "ok"


(***************************************************************************)
(* Properties of the submissions.                                          *)
(***************************************************************************)
\* C11: within one call each runtime receives at most one submission: none
\* before the fan-out polls its task, exactly one from then on, and a
\* submission that failed or timed out is not followed by a second one
C11_AtMostOneSubmissionPerRuntime ==
    \A i \in Runtimes :
        /\ Len(received[i]) <= 1
        /\ tasks[i] \in {"inflight"} \cup SubmissionOutcomes => Len(received[i]) = 1

\* a call has returned after a submission timed out and another was refused,
\* and each of the two runtimes received its request once
C11_Witness ==
    /\ pc = "done"
    /\ \E i, k \in Runtimes :
           /\ tasks[i] = "timeout"
           /\ tasks[k] = "rpc_error"
           /\ Len(received[i]) = 1
           /\ Len(received[k]) = 1


(***************************************************************************)
(* Properties of build_runtimes, stated for SpecRuntimes.                  *)
(***************************************************************************)
\* build_runtimes has returned for a provider that publishes a pool
BuiltWithPool == IsSome(runtimes) /\ swqos_config.kind # "Default"

\* the list of tip accounts instance i was built with
ChunkOf(i) == Unwrap(runtimes)[i].client.tip_accounts

\* C12: for a provider with a pool of P addresses and a configured degree
\* D >= 1, build_runtimes makes min(D, P) instances, and every chunk holds
\* ceil(P / min(D, P)) addresses, the last one possibly fewer
C12_InstancesAreMinOfDegreeAndPool ==
    (BuiltWithPool /\ swqos_config.threads >= 1) =>
        LET P == Len(provider_pool)
            D == swqos_config.threads
            size == (P + Min(D, P) - 1) \div Min(D, P)
            count == Len(Unwrap(runtimes))
        IN  /\ count = Min(D, P)
            /\ \A i \in 1..count :
                   IF i < count THEN Len(ChunkOf(i)) = size
                   ELSE Len(ChunkOf(i)) \in 1..size

RECURSIVE ConcatChunks(_)
\* the chunks of instances 1..n, concatenated in order
ConcatChunks(n) == IF n = 0 THEN <<>> ELSE ConcatChunks(n - 1) \o ChunkOf(n)

\* C13: the chunks of a provider's instances are non-empty, contiguous
\* slices of its pool, pairwise disjoint, and concatenated in order they are
\* the pool; degree 4 over a pool of 8 gives 4 chunks of 2
C13_ChunksPartitionThePool ==
    BuiltWithPool =>
        LET count == Len(Unwrap(runtimes))
        IN  /\ \A i \in 1..count :
                   /\ Len(ChunkOf(i)) >= 1
                   /\ \E from \in 1..Len(provider_pool) :
                          ChunkOf(i) = SubSeq(provider_pool, from, from + Len(ChunkOf(i)) - 1)
            /\ \A i, k \in 1..count :
                   i # k => Range(ChunkOf(i)) \cap Range(ChunkOf(k)) = {}
            /\ ConcatChunks(count) = provider_pool
            /\ (Len(provider_pool) = 8 /\ swqos_config.threads = 4) =>
                   /\ count = 4
                   /\ \A i \in 1..count : Len(ChunkOf(i)) = 2

\* degree 4 over a pool of 8 addresses has been built
C13_Witness ==
    /\ BuiltWithPool
    /\ Len(provider_pool) = 8
    /\ swqos_config.threads = 4
    /\ Len(Unwrap(runtimes)) = 4
    /\ ChunkOf(2) = SubSeq(provider_pool, 3, 4)

\* C14: the tip account an instance reports is one of its own chunk, so two
\* instances of one provider that hold different chunks never report the
\* same address in one call
C14_ReportedTipAccountIsOfOwnChunk ==
    /\ \A r \in reported :
           IsSome(r.account) => Unwrap(r.account) \in Range(ChunkOf(r.instance))
    /\ \A r, q \in reported :
           (/\ r.instance # q.instance
            /\ ChunkOf(r.instance) # ChunkOf(q.instance)
            /\ IsSome(r.account)) => r.account # q.account

\* C15: build_runtimes returns at least one runtime for every kind and
\* degree, each with a copy of the configuration it was called on, and a
\* degree of 0 gives what a degree of 1 gives: one instance, which holds
\* the whole pool of its provider
C15_AtLeastOneRuntimeEachWithTheConfig ==
    IsSome(runtimes) =>
        /\ Len(Unwrap(runtimes)) >= 1
        /\ \A i \in 1..Len(Unwrap(runtimes)) : Unwrap(runtimes)[i].config = swqos_config
        /\ swqos_config.threads = 0 =>
               /\ Len(Unwrap(runtimes)) = 1
               /\ ChunkOf(1) = provider_pool

\* a default relay configured with degree 0 and with tips and fees has been
\* built into one runtime
C15_Witness ==
    /\ IsSome(runtimes)
    /\ swqos_config.kind = "Default"
    /\ swqos_config.threads = 0
    /\ IsSome(swqos_config.buy_tip)
    /\ Len(Unwrap(runtimes)) = 1
    /\ Unwrap(runtimes)[1].config = swqos_config


(***************************************************************************)
(* Properties of the batch loops.                                          *)
(***************************************************************************)
\* the loop of batch_buy has been entered
BatchBuyStarted ==
    /\ call.op = "batch_buy"
    /\ pc \notin {"idle", "fetch"}
    /\ FetchesJoined

\* the venue instruction of the k-th item built: the last of its instructions
VenueIxOf(k) == batch_items[k].instructions[Len(batch_items[k].instructions)]

\* the token amount the k-th item buys
Bought(k) == VenueIxOf(k).args.token_amount

RECURSIVE SumBought(_)
\* the token amounts bought by items 1..k
SumBought(k) == IF k = 0 THEN 0 ELSE SumBought(k - 1) + Bought(k)

RECURSIVE SumSol(_)
\* the sol amounts, before slippage, of items 1..k
SumSol(k) == IF k = 0 THEN 0 ELSE SumSol(k - 1) + call.items[k].amount

\* the running reserves after the first k items, from the fetched ones
TokenAfter(k) == pool_info.token_reserves - SumBought(k)
SolAfter(k) == pool_info.sol_reserves + SumSol(k)

\* C16 as stated: after every prefix of a batch of buys the running
\* pool_token is the fetched token reserve minus the tokens the prefix
\* bought, and it strictly decreases at every item whose sol_amount is
\* greater than zero
C16_PoolTokenStrictlyDecreases ==
    BatchBuyStarted =>
        /\ pool_token_amount = TokenAfter(Len(batch_items))
        /\ \A k \in 1..Len(batch_items) :
               call.items[k].amount > 0 => TokenAfter(k) < TokenAfter(k - 1)

\* C16, amended: the running pool_token is the fetched token reserve minus
\* the tokens the prefix bought; it never increases, and it strictly
\* decreases at exactly the items that buy at least one token unit, those
\* with sol_amount * pool_token >= pool_sol + sol_amount on the running
\* reserves before the item
C16_PoolTokenNeverIncreases ==
    BatchBuyStarted =>
        /\ pool_token_amount = TokenAfter(Len(batch_items))
        /\ \A k \in 1..Len(batch_items) :
               /\ TokenAfter(k) <= TokenAfter(k - 1)
               /\ TokenAfter(k) < TokenAfter(k - 1) <=>
                      call.items[k].amount * TokenAfter(k - 1)
                          >= SolAfter(k - 1) + call.items[k].amount

\* a batch of two buys has been priced on a pool where neither buys a token
\* unit, and the running pool_token is still the fetched reserve
C16_Witness ==
    /\ BatchBuyStarted
    /\ Len(batch_items) = 2
    /\ call.items[1].amount > 0
    /\ Bought(1) = 0
    /\ Bought(2) = 0
    /\ pool_token_amount = pool_info.token_reserves

\* C17: the items of batch_buy are priced one after the other: item k buys
\* floor(sol_k * T / (S + sol_k)) tokens, S being the fetched sol reserve
\* plus the sol amounts before slippage of items 1..k-1 and T the fetched
\* token reserve minus the tokens those items bought; the running reserves
\* are updated before the next item is priced
C17_BatchBuySequentialPricing ==
    BatchBuyStarted =>
        /\ \A k \in 1..Len(batch_items) :
               Bought(k) = (call.items[k].amount * TokenAfter(k - 1))
                               \div (SolAfter(k - 1) + call.items[k].amount)
        /\ pool_sol_amount = SolAfter(Len(batch_items))
        /\ pool_token_amount = TokenAfter(Len(batch_items))

\* two items have been priced on the fetched reserves (30 sol, 1000 tokens):
\* the first buys 250 of 1000 tokens, the second 250 of the 750 left
C17_Witness ==
    /\ BatchBuyStarted
    /\ Len(batch_items) = 2
    /\ pool_info.token_reserves = 1000
    /\ Bought(1) = 250
    /\ Bought(2) = 250
    /\ pool_sol_amount = 60
    /\ pool_token_amount = 500


\* the loop of batch_sell has been entered
BatchSellStarted ==
    /\ call.op = "batch_sell"
    /\ pc \notin {"idle", "fetch"}
    /\ FetchesJoined

\* the venue instruction of the k-th item of a batch of sells: the first of
\* its instructions
SellIxOf(k) == batch_items[k].instructions[1]

\* C18: in batch_sell the SwapInfo of every item has the token amount sold
\* as its token leg and the sol output after slippage as its sol leg, as
\* the sell of a single trade has
C18_BatchSellSwapInfoLegs ==
    BatchSellStarted =>
        /\ \A k \in 1..Len(batch_items) :
               SellIxOf(k).args.token_amount = call.items[k].amount
        /\ Len(batch_items) >= 1 =>
               SellIxOf(1).args.sol_amount =
                   calculate_with_slippage_sell(
                       amm_sell_get_sol_out(pool_info.sol_reserves, pool_info.token_reserves,
                                            call.items[1].amount),
                       call.bps)


\* the compute-budget instructions of a transaction
FeeIxsOf(tx) == SelectSeq(IxsOf(tx), IsComputeBudget)

\* the tips of a transaction: account and amount of each transfer
TipsOf(tx) ==
    {<<IxsOf(tx)[j].args.to, IxsOf(tx)[j].args.lamports>> :
        j \in {n \in DOMAIN IxsOf(tx) : IsTransfer(IxsOf(tx)[n])}}

\* a fetch of the call has completed
Fetched(f) == f \in {"ok", "err"}

\* C19: in a batch call the pool and the blockhash are fetched once, before
\* anything is built, and no fetch is repeated; every transaction of the
\* call is signed over that one blockhash, and the transactions built for
\* one runtime, one per item, all carry the same fee instructions and the
\* same tip account and tip amount
C19_BatchSharesBlockhashFeeAndTip ==
    /\ [](IsBatch =>
              /\ Len(txs_to_send) > 0 =>
                     /\ fetch.pool = "ok"
                     /\ fetch.blockhash = "ok"
                     /\ Len(call.blockhashes) = 1
              /\ \A i \in 1..Len(txs_to_send) :
                     /\ Len(txs_to_send[i]) = Len(batch_items)
                     /\ \A k \in 1..Len(txs_to_send[i]) :
                            /\ txs_to_send[i][k].message.recent_blockhash = call.blockhashes[1]
                            /\ FeeIxsOf(txs_to_send[i][k]) = FeeIxsOf(txs_to_send[i][1])
                            /\ TipsOf(txs_to_send[i][k]) = TipsOf(txs_to_send[i][1]))
    /\ [][IsBatch =>
              /\ Fetched(fetch.pool) =>
                     fetch'.pool = fetch.pool /\ pool_info' = pool_info
              /\ Fetched(fetch.blockhash) =>
                     fetch'.blockhash = fetch.blockhash /\ call'.blockhashes = call.blockhashes
         ]_vars

\* a batch of two items has been sent to a runtime with fee instructions
\* and a tip: the second item's transaction carries both
C19_Witness ==
    /\ pc = "done"
    /\ IsBatch
    /\ N >= 1
    /\ Len(batch_items) = 2
    /\ Len(txs_to_send) = N
    /\ Len(txs_to_send[1]) = 2
    /\ HasTip(txs_to_send[1][2], swqos[1])
    /\ Len(FeeIxsOf(txs_to_send[1][2])) = 2


(***************************************************************************)
(* Properties of the single buy.                                           *)
(***************************************************************************)
\* C20: the trade instructions of the transaction buy builds are a
\* token-account creation of the idempotent, create-if-absent kind and,
\* right after it, the venue's buy instruction; every transaction built
\* for the call ends with these two
C20_BuyCreatesTokenAccountIdempotently ==
    (call.op = "buy" /\ pc \in {"build", "send", "done"} /\ instructions # <<>>) =>
        /\ Len(instructions) = 2
        /\ instructions[1].program = "AssociatedToken"
        /\ instructions[1].ix = "create_associated_token_account_idempotent"
        /\ instructions[2].program = "Pumpfun"
        /\ instructions[2].ix = "buy"
        /\ \A i \in 1..Len(txs_to_send) : \A tx \in Range(txs_to_send[i]) :
               SubSeq(IxsOf(tx), Len(IxsOf(tx)) - 1, Len(IxsOf(tx))) = instructions


(***************************************************************************)
(* Properties of the global snapshot.                                      *)
(***************************************************************************)
\* the error Pumpfun::initialized returns
NotInitialized == Err([kind |-> "CustomError", what |-> "Pumpfun not initialized"])

\* C21: a buy, sell, batch_buy or batch_sell made before a successful
\* initialize submits nothing to any runtime, and when it returns it
\* returns the not-initialized error
C21_UninitializedCallFailsNotInitialized ==
    (DexCall /\ IsNone(global_account)) =>
        /\ \A i \in Runtimes : received[i] = <<>>
        /\ pc # "panicked"
        /\ pc = "done" => Unwrap(result) = NotInitialized


\* caller c has got past the set of the cell
SetDone(c) == initializers[c].at \in {"ok", "already_set"}

\* C22: the snapshot is stored once: a stored snapshot never changes, at
\* most one initialize returns Ok and the cell then holds what that caller
\* fetched, and an initialize that reaches the set of a cell already set
\* returns the error and leaves the cell as it is
C22_SnapshotIsWriteOnce ==
    /\ [](/\ Cardinality({c \in Callers : initializers[c].at = "ok"}) <= 1
          /\ \A c \in Callers :
                 /\ initializers[c].at = "ok" => global_account = initializers[c].account
                 /\ SetDone(c) => IsSome(global_account))
    /\ [][/\ IsSome(global_account) => global_account' = global_account
          /\ \A c \in Callers :
                 (IsSome(global_account) /\ ~SetDone(c) /\ SetDone(c)') =>
                     initializers'[c].at = "already_set"
         ]_vars

\* two callers fetched different contents concurrently; one stored its
\* own and the other was refused
C22_Witness ==
    \E c, d \in Callers :
        /\ initializers[c].at = "ok"
        /\ initializers[d].at = "already_set"
        /\ initializers[c].account # initializers[d].account
        /\ global_account = initializers[c].account


\* the error value the specification names for a pool without reserves
PoolUninitialized == Err([kind |-> "PoolUninitialized", what |-> ""])

\* on an initialized venue every fetch of the call succeeded and the pool
\* fetched has a zero reserve
ZeroReservesFetched ==
    /\ DexCall
    /\ IsSome(global_account)
    /\ FetchesJoined
    /\ pool_info.sol_reserves = 0 \/ pool_info.token_reserves = 0

\* C23: when the fetched pool has a zero reserve on either side, buy, sell,
\* batch_buy and batch_sell submit nothing to any runtime, price and build
\* nothing, and return the PoolUninitialized error
C23_ZeroReservesFailPoolUninitialized ==
    ZeroReservesFetched =>
        /\ \A i \in Runtimes : received[i] = <<>>
        /\ instructions = <<>>
        /\ batch_items = <<>>
        /\ pc = "done" => Unwrap(result) = PoolUninitialized


(***************************************************************************)
(* Properties of the pricing and of the fee combination.                   *)
(***************************************************************************)
\* the quote was made by buy, by sell
QuotedBuy == amm.at = "buy"
QuotedSell == amm.at = "sell"

\* swap_out does not decrease from any amount in 1..amount to the next
NonDecreasingUpTo(reserve_in, reserve_out, amount) ==
    \A a \in 1..(amount - 1) :
        swap_out(reserve_in, reserve_out, a) <= swap_out(reserve_in, reserve_out, a + 1)

\* C24: for non-zero reserves and an amount in greater than zero the output
\* quoted is strictly less than the reserve it is taken from, and the
\* output does not decrease as the amount in grows on the same reserves
C24_SwapOutBelowReserveAndMonotone ==
    /\ (QuotedBuy /\ amm.amount > 0) =>
           /\ amm.out = swap_out(amm.sol_reserves, amm.token_reserves, amm.amount)
           /\ amm.out < amm.token_reserves
           /\ NonDecreasingUpTo(amm.sol_reserves, amm.token_reserves, amm.amount)
    /\ (QuotedSell /\ amm.amount > 0) =>
           /\ amm.out = swap_out(amm.token_reserves, amm.sol_reserves, amm.amount)
           /\ amm.out < amm.sol_reserves
           /\ NonDecreasingUpTo(amm.token_reserves, amm.sol_reserves, amm.amount)

\* a buy of more than one unit that is quoted all of the reserve but one unit
C24_Witness ==
    /\ QuotedBuy
    /\ amm.amount > 1
    /\ amm.out > 0
    /\ amm.out = amm.token_reserves - 1

\* C25: the amount with buy slippage is never below the amount, the amount
\* with sell slippage is never above it, and both equal it at zero basis
\* points: the ceiling buy declares is at least the sol amount asked for and
\* the floor sell declares is at most the sol output quoted
C25_SlippageBoundsTheAmount ==
    /\ QuotedBuy =>
           /\ amm.with_slippage >= amm.amount
           /\ amm.bps = 0 => amm.with_slippage = amm.amount
    /\ QuotedSell =>
           /\ amm.with_slippage <= amm.out
           /\ amm.with_slippage >= 0
           /\ amm.bps = 0 => amm.with_slippage = amm.out

\* a buy at one basis point, whose ceiling is rounded up to one unit more
C25_Witness ==
    /\ QuotedBuy
    /\ amm.amount > 0
    /\ amm.bps = 1
    /\ amm.with_slippage = amm.amount + 1

\* the fee resolution has been made
FeeResolved == fees.at \in {"resolved", "both"}

\* C26: a configured fee and a per-call fee combine into the sum of their
\* unit limits, capped at the largest u32, and the larger of their unit
\* prices; exchanging the two gives the same fee; when only one of the two
\* is present the effective fee is that one
C26_FeeCombination ==
    /\ (FeeResolved /\ IsSome(fees.base) /\ IsSome(fees.additional)) =>
           LET a == Unwrap(fees.base)
               b == Unwrap(fees.additional)
           IN  fees.out = Some(PriorityFee(Min(U32Max, a.unit_limit + b.unit_limit),
                                           Max(a.unit_price, b.unit_price)))
    /\ (FeeResolved /\ IsSome(fees.base) /\ IsNone(fees.additional)) => fees.out = fees.base
    /\ (FeeResolved /\ IsNone(fees.base) /\ IsSome(fees.additional)) => fees.out = fees.additional
    /\ fees.at = "both" => fees.swapped = fees.out

\* two fees whose unit limits add up to more than the largest u32 and whose
\* unit prices differ, resolved both ways
C26_Witness ==
    /\ fees.at = "both"
    /\ IsSome(fees.base)
    /\ IsSome(fees.additional)
    /\ Unwrap(fees.base).unit_limit + Unwrap(fees.additional).unit_limit > U32Max
    /\ Unwrap(fees.base).unit_price < Unwrap(fees.additional).unit_price
    /\ Unwrap(fees.out).unit_limit = U32Max


(***************************************************************************)
(* Properties of the batch fan-out and of the calls' equivalences.         *)
(***************************************************************************)
\* the number of items of the batch
M == Len(call.items)

\* runtime i was sent one request, of one transaction per item, in item
\* order, each paid and signed by its item's payer
OneRequestOfEveryItem(i) ==
    /\ Len(received[i]) = 1
    /\ Len(received[i][1]) = M
    /\ \A k \in 1..M :
           /\ received[i][1][k].message.payer = call.items[k].payer
           /\ FirstSignature(received[i][1][k]) =
                  Sign(call.items[k].payer, received[i][1][k].message)

\* C27: a batch call of M items over N runtimes whose fan-out has been
\* polled has sent every runtime exactly one request of exactly M
\* transactions in item order, and when it returns success it returns the
\* N * M first signatures, runtime by runtime and item by item
C27_BatchSendsOneRequestOfMPerRuntime ==
    IsBatch =>
        /\ pc \in {"send", "panicked"} => \A i \in Runtimes : OneRequestOfEveryItem(i)
        /\ (pc = "done" /\ IsOk(Unwrap(result))) =>
               /\ \A i \in Runtimes : OneRequestOfEveryItem(i)
               /\ Len(Unwrap(result).val) = N * M
               /\ \A i \in Runtimes : \A k \in 1..M :
                      Unwrap(result).val[(i - 1) * M + k] = FirstSignature(received[i][1][k])


\* a batch_buy of one item has built the item's instructions
SingleItemBatchBuyBuilt ==
    /\ call.op = "batch_buy"
    /\ M = 1
    /\ Len(batch_items) = 1

\* C28: a batch_buy of a single item builds the venue instruction that buy
\* builds for the same payer, sol amount, slippage and fetched pool: the
\* same SwapInfo legs, the same auxiliary account and the same payer token
\* account
C28_SingleItemBatchBuyBuildsAsBuy ==
    SingleItemBatchBuyBuilt =>
        VenueIxOf(1) = BuyInstruction(call.items[1].payer, call.items[1].amount, call.bps).val


\* a batch call whose fetches gave a pool with both reserves non-zero has
\* entered its loop
BatchLoopEntered ==
    /\ call.op \in {"batch_buy", "batch_sell"}
    /\ pc \notin {"idle", "fetch"}
    /\ FetchesJoined
    /\ pool_info.sol_reserves > 0
    /\ pool_info.token_reserves > 0

\* C29: in the loops of batch_buy and batch_sell, from non-zero fetched
\* reserves, the two running reserves stay strictly positive, and the
\* product of the two never decreases from one item to the next
C29_RunningReservesPositiveProductGrows ==
    /\ [](BatchLoopEntered => (pool_sol_amount > 0 /\ pool_token_amount > 0))
    /\ [][BatchLoopEntered =>
             pool_sol_amount' * pool_token_amount' >= pool_sol_amount * pool_token_amount]_vars

\* a batch_buy has priced its two items, each taking tokens out of the pool
C29_Witness ==
    /\ BatchLoopEntered
    /\ call.op = "batch_buy"
    /\ M = 2
    /\ Len(batch_items) = 2
    /\ Bought(1) > 0
    /\ Bought(2) > 0
    /\ pool_token_amount = pool_info.token_reserves - Bought(1) - Bought(2)


\* the call has got as far as build_and_broadcast_tx or
\* build_and_broadcast_batch_txs
ReachedBroadcast ==
    \/ call.op = "broadcast"
    \/ DexCall /\ FetchesJoined /\ IsSome(global_account)

\* C30: on an endpoint with no runtimes the broadcast builds and signs
\* nothing, submits nothing, and returns success with an empty list of
\* signatures
C30_NoRuntimesReturnsEmptySuccess ==
    N = 0 =>
        /\ signatures = <<>>
        /\ txs_to_send = <<>>
        /\ pc # "panicked"
        /\ (pc = "done" /\ ReachedBroadcast) => Unwrap(result) = Ok(<<>>)

\* a buy on an endpoint with no runtimes has built its trade instructions
\* and has returned success
C30_Witness ==
    /\ N = 0
    /\ pc = "done"
    /\ call.op = "buy"
    /\ instructions # <<>>
    /\ Unwrap(result) = Ok(<<>>)

=============================================================================
